---- MODULE Spec2Model ----
(***************************************************************************)
(* Engineering team management backend: users, projects and assignments   *)
(* kept in a document store, the derivation hooks of the models           *)
(* (actualHours, assignment status, project progress, project status),    *)
(* the role checks and field masks of the routes, and the workload view.  *)
(*                                                                         *)
(* Hours are counted in quarters of an hour (the smallest time entry the  *)
(* schema accepts is 0.25 h), so 0.25 h is 1 and 24 h is 96.               *)
(* Dates are points of an integer clock, now.                              *)
(*                                                                         *)
(* A handler runs as one action where no other request interleaves.  For   *)
(* requests that run concurrently the handler is also given one action     *)
(* per await, with the request's position and locals kept in inflight.     *)
(* db is the position of the start-up routine connectDB.                   *)
(***************************************************************************)
EXTENDS Integers, Sequences, FiniteSets, TLC

VARIABLES users, projects, assignments, nextAssignment, now, resp, inflight, db

vars == <<users, projects, assignments, nextAssignment, now, resp, inflight, db>>

(***************************************************************************)
(* Bounds of the model.                                                    *)
(***************************************************************************)
MaxAssignments == 2
MaxNow == 2
MaxEntries == 2
MaxComments == 1
MaxRequests == 2

(***************************************************************************)
(* Schema constants.                                                       *)
(***************************************************************************)
MaxProgress == 100
MinEntryHours == 1
MaxEntryHours == 96
MinEstimatedHours == 2
MinAvailability == 1
MaxAvailability == 60

UserIds == {"u1", "u2", "u3", "u4"}
ProjectIds == {"p1", "p2"}
Roles == {"admin", "manager", "engineer"}
AssignmentStatuses == {"pending", "active", "in-progress", "completed", "cancelled", "on-hold"}
ProjectStatuses == {"planning", "active", "on-hold", "completed", "cancelled"}

\* completedAt of an assignment that was never completed.
NoDate == 0 - 1

(***************************************************************************)
(* Arithmetic helpers.                                                     *)
(***************************************************************************)
\* Math.round(n / d) for n >= 0, d > 0: the nearest integer, halves upwards.
MathRound(n, d) == (2 * n + d) \div (2 * d)

Max(x, y) == IF x >= y THEN x ELSE y

RECURSIVE SumSeq(_)
SumSeq(s) == IF s = <<>> THEN 0 ELSE Head(s) + SumSeq(Tail(s))

RECURSIVE SumOver(_, _)
\* Sum of f[i] over the finite set S (f a function on S).
SumOver(S, f) ==
  IF S = {} THEN 0
  ELSE LET i == CHOOSE x \in S : TRUE
       IN f[i] + SumOver(S \ {i}, f)

(***************************************************************************)
(* Assignment model hooks (models/Assignment.js).                          *)
(***************************************************************************)
\* pre("save"), first block: actualHours follows the time entries when they
\* were modified.
RecomputeHoursSkipped(a, timeEntriesModified) == a

RecomputeHours(a, timeEntriesModified) ==
  IF timeEntriesModified
  THEN [a EXCEPT !.actualHours = SumSeq(a.timeEntries)]
  ELSE a

\* pre("save"), second and third block: the status rules.
StatusRulesRestamp(a, t) ==
  LET a1 == IF a.progress = MaxProgress
            THEN [a EXCEPT !.status = "completed", !.completedAt = t]
            ELSE a
  IN IF a1.progress > 0 /\ a1.status \in {"pending", "active"}
     THEN [a1 EXCEPT !.status = "in-progress"]
     ELSE a1

StatusRules(a, t) ==
  LET a1 == IF a.progress = MaxProgress /\ a.status # "completed"
            THEN [a EXCEPT !.status = "completed", !.completedAt = t]
            ELSE a
  IN IF a1.progress > 0 /\ a1.status \in {"pending", "active"}
     THEN [a1 EXCEPT !.status = "in-progress"]
     ELSE a1

\* save() validates the modified paths and the required ones; deadline is
\* required, so its validator (value > new Date()) runs on every save.
AssignmentSaveValid(a, t) == a.deadline > t

AssignmentPreSave(a, timeEntriesModified, t) ==
  StatusRules(RecomputeHours(a, timeEntriesModified), t)

(***************************************************************************)
(* Project model hooks (second half of models/Assignment.js).              *)
(***************************************************************************)
AssignmentsOf(as, pid) == {i \in DOMAIN as : as[i].project = pid}

\* pre("save"): the project status rules.
ProjectPreSave(p) ==
  IF p.progress = MaxProgress /\ p.status # "completed"
  THEN [p EXCEPT !.status = "completed"]
  ELSE IF p.progress > 0 /\ p.status = "planning"
       THEN [p EXCEPT !.status = "active"]
       ELSE p

\* methods.updateProgress, the value it computes.
MeanProgress(as, pid) ==
  LET ids == AssignmentsOf(as, pid)
  IN IF Cardinality(ids) = 0 THEN 0
     ELSE MathRound(SumOver(ids, [i \in ids |-> as[i].progress]), Cardinality(ids))

\* methods.updateProgress: recompute, then save (which runs pre("save")).
UpdateProgress(ps, as, pid) ==
  [ps EXCEPT ![pid] = ProjectPreSave([@ EXCEPT !.progress = MeanProgress(as, pid)])]

\* post("save") of an assignment: the owning project, when it exists, is
\* recomputed.
AssignmentPostSave(ps, as, id) ==
  IF as[id].project \in DOMAIN ps
  THEN UpdateProgress(ps, as, as[id].project)
  ELSE ps

\* document.save() of assignment id holding doc: pre("save"), the write, then
\* post("save").  The result is the store afterwards.
SaveAssignment(as, ps, id, doc, timeEntriesModified, t) ==
  LET as2 == [i \in (DOMAIN as) \cup {id} |->
                IF i = id THEN AssignmentPreSave(doc, timeEntriesModified, t) ELSE as[i]]
  IN [assignments |-> as2, projects |-> AssignmentPostSave(ps, as2, id)]

(***************************************************************************)
(* Requests and responses.  resp is the last response sent: the operation, *)
(* the HTTP status, the caller, the target id and the request body.        *)
(***************************************************************************)
Reply(op, code, caller, id, body) ==
  resp' = [op |-> op, code |-> code, caller |-> caller, id |-> id, body |-> body]

\* middleware/auth.js: protect resolves the token to a stored user, and the
\* role guards compare that user's role.
Protect(caller) == caller \in DOMAIN users

IsAdmin(caller) == users[caller].role = "admin"

IsAdminOrManager(caller) == users[caller].role \in {"admin", "manager"}

\* Fields of a request body that are present (not undefined).
Present(body, f) == f \in DOMAIN body

\* The fields picked from the body by an allowedFields.forEach loop.
PickAll(body, allowed) == body

Pick(body, allowed) == [f \in (DOMAIN body) \cap allowed |-> body[f]]

\* findByIdAndUpdate(id, update): the document with the update's paths set.
\* Paths the schema does not know are dropped (strict mode).
SetFields(doc, update) ==
  [f \in DOMAIN doc |-> IF f \in DOMAIN update THEN update[f] ELSE doc[f]]

(***************************************************************************)
(* routes/assignments.js                                                   *)
(***************************************************************************)
\* allowedFields of the engineer branch of PUT /:id.
EngineerAssignmentFieldsWide == {"progress", "status", "actualHours", "estimatedHours"}

EngineerAssignmentFields == {"progress", "status", "actualHours"}

\* runValidators: the schema validators of the paths the update sets.
ValidAssignmentUpdate(update, t) ==
  /\ Present(update, "progress") => update.progress \in 0..MaxProgress
  /\ Present(update, "status") => update.status \in AssignmentStatuses
  /\ Present(update, "actualHours") => update.actualHours >= 0
  /\ Present(update, "estimatedHours") => update.estimatedHours >= MinEstimatedHours
  /\ Present(update, "deadline") => update.deadline > t

\* PUT /:id, lines 309-328: the average the route computes for the project.
RouteAverageStale(asBefore, as, pid) ==
  LET ids == AssignmentsOf(asBefore, pid)
  IN IF Cardinality(ids) > 0
     THEN MathRound(SumOver(ids, [i \in ids |-> asBefore[i].progress]), Cardinality(ids))
     ELSE 0

RouteAverage(asBefore, as, pid) ==
  LET ids == AssignmentsOf(as, pid)
  IN IF Cardinality(ids) > 0
     THEN MathRound(SumOver(ids, [i \in ids |-> as[i].progress]), Cardinality(ids))
     ELSE 0

\* PUT /api/assignments/:id
UpdateAssignment(caller, id, body) ==
  /\ Protect(caller)
  /\ IF id \notin DOMAIN assignments
     THEN /\ Reply("updateAssignment", 404, caller, id, body)
          /\ UNCHANGED <<users, projects, assignments, nextAssignment, now, inflight, db>>
     ELSE LET a == assignments[id]
              role == users[caller].role
              canUpdate == role = "admin" \/ a.assignedBy = caller \/ a.assignee = caller
              updateFields == IF role = "engineer"
                              THEN Pick(body, EngineerAssignmentFields)
                              ELSE body
          IN IF ~canUpdate
             THEN /\ Reply("updateAssignment", 403, caller, id, body)
                  /\ UNCHANGED <<users, projects, assignments, nextAssignment, now, inflight, db>>
             ELSE IF ~ValidAssignmentUpdate(updateFields, now)
             THEN /\ Reply("updateAssignment", 400, caller, id, body)
                  /\ UNCHANGED <<users, projects, assignments, nextAssignment, now, inflight, db>>
             ELSE LET as2 == [assignments EXCEPT ![id] = SetFields(a, updateFields)]
                      pid == as2[id].project
                  IN /\ assignments' = as2
                     /\ projects' = IF pid \in DOMAIN projects
                                    THEN [projects EXCEPT ![pid].progress =
                                            RouteAverage(assignments, as2, pid)]
                                    ELSE projects
                     /\ Reply("updateAssignment", 200, caller, id, body)
                     /\ UNCHANGED <<users, nextAssignment, now, inflight, db>>

\* A new assignment document with the schema defaults.
NewAssignment(caller, body, t) ==
  [project |-> body.project, assignee |-> body.assignee, assignedBy |-> caller,
   status |-> "active", progress |-> 0, estimatedHours |-> body.estimatedHours,
   actualHours |-> 0, deadline |-> body.deadline, completedAt |-> NoDate,
   comments |-> <<>>, timeEntries |-> <<>>]

\* POST /api/assignments
CreateAssignment(caller, body) ==
  /\ Protect(caller)
  /\ nextAssignment <= MaxAssignments
  /\ IF ~IsAdminOrManager(caller)
     THEN /\ Reply("createAssignment", 403, caller, 0, body)
          /\ UNCHANGED <<users, projects, assignments, nextAssignment, now, inflight, db>>
     ELSE IF body.project \notin DOMAIN projects \/ body.assignee \notin DOMAIN users
     THEN /\ Reply("createAssignment", 404, caller, 0, body)
          /\ UNCHANGED <<users, projects, assignments, nextAssignment, now, inflight, db>>
     ELSE IF users[caller].role = "manager" /\ projects[body.project].manager # caller
     THEN /\ Reply("createAssignment", 403, caller, 0, body)
          /\ UNCHANGED <<users, projects, assignments, nextAssignment, now, inflight, db>>
     ELSE IF ~(body.estimatedHours >= MinEstimatedHours /\ body.deadline > now)
     THEN /\ Reply("createAssignment", 400, caller, 0, body)
          /\ UNCHANGED <<users, projects, assignments, nextAssignment, now, inflight, db>>
     ELSE LET id == nextAssignment
              saved == SaveAssignment(assignments, projects, id,
                                      NewAssignment(caller, body, now), FALSE, now)
          IN /\ assignments' = saved.assignments
             /\ projects' = saved.projects
             /\ nextAssignment' = nextAssignment + 1
             /\ Reply("createAssignment", 201, caller, id, body)
             /\ UNCHANGED <<users, now, inflight, db>>

\* POST /api/assignments/:id/time-entries; hours = 0 stands for a body
\* without hours (both are falsy).
AddTimeEntry(caller, id, hours) ==
  /\ Protect(caller)
  /\ IF hours = 0
     THEN /\ Reply("addTimeEntry", 400, caller, id, hours)
          /\ UNCHANGED <<users, projects, assignments, nextAssignment, now, inflight, db>>
     ELSE IF id \notin DOMAIN assignments
     THEN /\ Reply("addTimeEntry", 404, caller, id, hours)
          /\ UNCHANGED <<users, projects, assignments, nextAssignment, now, inflight, db>>
     ELSE IF assignments[id].assignee # caller
     THEN /\ Reply("addTimeEntry", 403, caller, id, hours)
          /\ UNCHANGED <<users, projects, assignments, nextAssignment, now, inflight, db>>
     ELSE IF ~(hours >= MinEntryHours /\ hours <= MaxEntryHours
               /\ AssignmentSaveValid(assignments[id], now))
     THEN \* save() rejects the document; the route answers 500
          /\ Reply("addTimeEntry", 500, caller, id, hours)
          /\ UNCHANGED <<users, projects, assignments, nextAssignment, now, inflight, db>>
     ELSE /\ Len(assignments[id].timeEntries) < MaxEntries
          /\ LET pushed == [assignments[id] EXCEPT !.timeEntries = Append(@, hours)]
                 saved == SaveAssignment(assignments, projects, id, pushed, TRUE, now)
             IN /\ assignments' = saved.assignments
                /\ projects' = saved.projects
          /\ Reply("addTimeEntry", 201, caller, id, hours)
          /\ UNCHANGED <<users, nextAssignment, now, inflight, db>>

\* POST /api/assignments/:id/comments; hasText is FALSE for an empty text.
AddComment(caller, id, hasText) ==
  /\ Protect(caller)
  /\ IF ~hasText
     THEN /\ Reply("addComment", 400, caller, id, hasText)
          /\ UNCHANGED <<users, projects, assignments, nextAssignment, now, inflight, db>>
     ELSE IF id \notin DOMAIN assignments
     THEN /\ Reply("addComment", 404, caller, id, hasText)
          /\ UNCHANGED <<users, projects, assignments, nextAssignment, now, inflight, db>>
     ELSE IF users[caller].role = "engineer" /\ assignments[id].assignee # caller
     THEN /\ Reply("addComment", 403, caller, id, hasText)
          /\ UNCHANGED <<users, projects, assignments, nextAssignment, now, inflight, db>>
     ELSE IF ~AssignmentSaveValid(assignments[id], now)
     THEN /\ Reply("addComment", 500, caller, id, hasText)
          /\ UNCHANGED <<users, projects, assignments, nextAssignment, now, inflight, db>>
     ELSE /\ Len(assignments[id].comments) < MaxComments
          /\ LET pushed == [assignments[id] EXCEPT !.comments = Append(@, caller)]
                 saved == SaveAssignment(assignments, projects, id, pushed, FALSE, now)
             IN /\ assignments' = saved.assignments
                /\ projects' = saved.projects
          /\ Reply("addComment", 201, caller, id, hasText)
          /\ UNCHANGED <<users, nextAssignment, now, inflight, db>>

\* DELETE /api/assignments/:id
DeleteAssignment(caller, id) ==
  /\ Protect(caller)
  /\ IF ~IsAdminOrManager(caller)
     THEN /\ Reply("deleteAssignment", 403, caller, id, <<>>)
          /\ UNCHANGED <<users, projects, assignments, nextAssignment, now, inflight, db>>
     ELSE IF id \notin DOMAIN assignments
     THEN /\ Reply("deleteAssignment", 404, caller, id, <<>>)
          /\ UNCHANGED <<users, projects, assignments, nextAssignment, now, inflight, db>>
     ELSE IF users[caller].role = "manager" /\ assignments[id].project \notin DOMAIN projects
     THEN \* project is null; reading project.manager throws
          /\ Reply("deleteAssignment", 500, caller, id, <<>>)
          /\ UNCHANGED <<users, projects, assignments, nextAssignment, now, inflight, db>>
     ELSE IF users[caller].role = "manager"
             /\ projects[assignments[id].project].manager # caller
     THEN /\ Reply("deleteAssignment", 403, caller, id, <<>>)
          /\ UNCHANGED <<users, projects, assignments, nextAssignment, now, inflight, db>>
     ELSE /\ assignments' = [i \in (DOMAIN assignments) \ {id} |-> assignments[i]]
          /\ Reply("deleteAssignment", 200, caller, id, <<>>)
          /\ UNCHANGED <<users, projects, nextAssignment, now, inflight, db>>

(***************************************************************************)
(* routes/projects.js                                                      *)
(***************************************************************************)
ValidProjectUpdate(update, t) ==
  /\ Present(update, "progress") => update.progress \in 0..MaxProgress
  /\ Present(update, "status") => update.status \in ProjectStatuses
  /\ Present(update, "deadline") => update.deadline > t

\* PUT /api/projects/:id
UpdateProject(caller, id, body) ==
  /\ Protect(caller)
  /\ IF ~IsAdminOrManager(caller)
     THEN /\ Reply("updateProject", 403, caller, id, body)
          /\ UNCHANGED <<users, projects, assignments, nextAssignment, now, inflight, db>>
     ELSE IF id \notin DOMAIN projects
     THEN /\ Reply("updateProject", 404, caller, id, body)
          /\ UNCHANGED <<users, projects, assignments, nextAssignment, now, inflight, db>>
     ELSE IF users[caller].role = "manager" /\ projects[id].manager # caller
     THEN /\ Reply("updateProject", 403, caller, id, body)
          /\ UNCHANGED <<users, projects, assignments, nextAssignment, now, inflight, db>>
     ELSE IF ~ValidProjectUpdate(body, now)
     THEN /\ Reply("updateProject", 400, caller, id, body)
          /\ UNCHANGED <<users, projects, assignments, nextAssignment, now, inflight, db>>
     ELSE /\ projects' = [projects EXCEPT ![id] = SetFields(@, body)]
          /\ Reply("updateProject", 200, caller, id, body)
          /\ UNCHANGED <<users, assignments, nextAssignment, now, inflight, db>>

\* Assignment.deleteMany({ project: id })
DeleteManyKeepOne(as, pid) ==
  LET ids == AssignmentsOf(as, pid)
      gone == IF ids = {} THEN {} ELSE {CHOOSE i \in ids : TRUE}
  IN [i \in (DOMAIN as) \ gone |-> as[i]]

DeleteMany(as, pid) ==
  [i \in (DOMAIN as) \ AssignmentsOf(as, pid) |-> as[i]]

\* DELETE /api/projects/:id
DeleteProject(caller, id) ==
  /\ Protect(caller)
  /\ IF ~IsAdminOrManager(caller)
     THEN /\ Reply("deleteProject", 403, caller, id, <<>>)
          /\ UNCHANGED <<users, projects, assignments, nextAssignment, now, inflight, db>>
     ELSE IF id \notin DOMAIN projects
     THEN /\ Reply("deleteProject", 404, caller, id, <<>>)
          /\ UNCHANGED <<users, projects, assignments, nextAssignment, now, inflight, db>>
     ELSE IF users[caller].role = "manager" /\ projects[id].manager # caller
     THEN /\ Reply("deleteProject", 403, caller, id, <<>>)
          /\ UNCHANGED <<users, projects, assignments, nextAssignment, now, inflight, db>>
     ELSE /\ assignments' = DeleteMany(assignments, id)
          /\ projects' = [p \in (DOMAIN projects) \ {id} |-> projects[p]]
          /\ Reply("deleteProject", 200, caller, id, <<>>)
          /\ UNCHANGED <<users, nextAssignment, now, inflight, db>>

\* project.save() in the team-member routes: deadline is a required path, so
\* its validator runs; then pre("save").
ProjectSaveValid(p, t) == p.deadline > t

InTeam(p, userId) == \E k \in 1..Len(p.teamMembers) : p.teamMembers[k] = userId

\* POST /api/projects/:id/team-members; hasRole is FALSE for a body without
\* the (required) role label.
AddTeamMember(caller, id, userId, hasRole) ==
  /\ Protect(caller)
  /\ IF ~IsAdminOrManager(caller)
     THEN /\ Reply("addTeamMember", 403, caller, id, userId)
          /\ UNCHANGED <<users, projects, assignments, nextAssignment, now, inflight, db>>
     ELSE IF id \notin DOMAIN projects
     THEN /\ Reply("addTeamMember", 404, caller, id, userId)
          /\ UNCHANGED <<users, projects, assignments, nextAssignment, now, inflight, db>>
     ELSE IF users[caller].role = "manager" /\ projects[id].manager # caller
     THEN /\ Reply("addTeamMember", 403, caller, id, userId)
          /\ UNCHANGED <<users, projects, assignments, nextAssignment, now, inflight, db>>
     ELSE IF InTeam(projects[id], userId)
     THEN /\ Reply("addTeamMember", 400, caller, id, userId)
          /\ UNCHANGED <<users, projects, assignments, nextAssignment, now, inflight, db>>
     ELSE IF ~(hasRole /\ ProjectSaveValid(projects[id], now))
     THEN /\ Reply("addTeamMember", 500, caller, id, userId)
          /\ UNCHANGED <<users, projects, assignments, nextAssignment, now, inflight, db>>
     ELSE /\ projects' = [projects EXCEPT ![id] =
                            ProjectPreSave([@ EXCEPT !.teamMembers = Append(@, userId)])]
          /\ Reply("addTeamMember", 200, caller, id, userId)
          /\ UNCHANGED <<users, assignments, nextAssignment, now, inflight, db>>

\* DELETE /api/projects/:id/team-members/:userId
RemoveTeamMember(caller, id, userId) ==
  /\ Protect(caller)
  /\ IF ~IsAdminOrManager(caller)
     THEN /\ Reply("removeTeamMember", 403, caller, id, userId)
          /\ UNCHANGED <<users, projects, assignments, nextAssignment, now, inflight, db>>
     ELSE IF id \notin DOMAIN projects
     THEN /\ Reply("removeTeamMember", 404, caller, id, userId)
          /\ UNCHANGED <<users, projects, assignments, nextAssignment, now, inflight, db>>
     ELSE IF users[caller].role = "manager" /\ projects[id].manager # caller
     THEN /\ Reply("removeTeamMember", 403, caller, id, userId)
          /\ UNCHANGED <<users, projects, assignments, nextAssignment, now, inflight, db>>
     ELSE IF ~ProjectSaveValid(projects[id], now)
     THEN /\ Reply("removeTeamMember", 500, caller, id, userId)
          /\ UNCHANGED <<users, projects, assignments, nextAssignment, now, inflight, db>>
     ELSE /\ projects' = [projects EXCEPT ![id] =
                            ProjectPreSave([@ EXCEPT !.teamMembers =
                              SelectSeq(@, LAMBDA m : m # userId)])]
          /\ Reply("removeTeamMember", 200, caller, id, userId)
          /\ UNCHANGED <<users, assignments, nextAssignment, now, inflight, db>>

(***************************************************************************)
(* routes/users.js                                                         *)
(***************************************************************************)
EngineerUserFields == {"firstName", "lastName", "phone", "location", "skills", "availability"}

ValidUserUpdate(update) ==
  /\ Present(update, "role") => update.role \in Roles
  /\ Present(update, "availability") =>
       update.availability \in MinAvailability..MaxAvailability

\* PUT /api/users/:id
UpdateUser(caller, id, body) ==
  /\ Protect(caller)
  /\ IF id \notin DOMAIN users
     THEN /\ Reply("updateUser", 404, caller, id, body)
          /\ UNCHANGED <<users, projects, assignments, nextAssignment, now, inflight, db>>
     ELSE LET role == users[caller].role
              canUpdate == role = "admin" \/ caller = id
              updateFields == IF role = "engineer" /\ caller = id
                              THEN Pick(body, EngineerUserFields)
                              ELSE Pick(body, (DOMAIN body) \ {"password"})
          IN IF ~canUpdate
             THEN /\ Reply("updateUser", 403, caller, id, body)
                  /\ UNCHANGED <<users, projects, assignments, nextAssignment, now, inflight, db>>
             ELSE IF ~ValidUserUpdate(updateFields)
             THEN /\ Reply("updateUser", 400, caller, id, body)
                  /\ UNCHANGED <<users, projects, assignments, nextAssignment, now, inflight, db>>
             ELSE /\ users' = [users EXCEPT ![id] = SetFields(@, updateFields)]
                  /\ Reply("updateUser", 200, caller, id, body)
                  /\ UNCHANGED <<projects, assignments, nextAssignment, now, inflight, db>>

\* User.countDocuments({ role: "admin", isActive: true })
ActiveAdminCount(us) ==
  Cardinality({u \in DOMAIN us : us[u].role = "admin" /\ us[u].isActive})

\* The guard "Don't allow deleting the last admin".
LastAdminGuardOff(us, id) == FALSE

LastAdminGuard(us, id) == us[id].role = "admin" /\ ActiveAdminCount(us) <= 1

\* Assignment.updateMany({ assignee, status in [active, in-progress] },
\*                       { status: "cancelled" })
CancelAssignments(as, id) ==
  [i \in DOMAIN as |->
     IF as[i].assignee = id /\ as[i].status \in {"active", "in-progress"}
     THEN [as[i] EXCEPT !.status = "cancelled"]
     ELSE as[i]]

\* DELETE /api/users/:id
DeleteUser(caller, id) ==
  /\ Protect(caller)
  /\ IF ~IsAdmin(caller)
     THEN /\ Reply("deleteUser", 403, caller, id, <<>>)
          /\ UNCHANGED <<users, projects, assignments, nextAssignment, now, inflight, db>>
     ELSE IF id \notin DOMAIN users
     THEN /\ Reply("deleteUser", 404, caller, id, <<>>)
          /\ UNCHANGED <<users, projects, assignments, nextAssignment, now, inflight, db>>
     ELSE IF LastAdminGuard(users, id)
     THEN /\ Reply("deleteUser", 400, caller, id, <<>>)
          /\ UNCHANGED <<users, projects, assignments, nextAssignment, now, inflight, db>>
     ELSE /\ users' = [users EXCEPT ![id].isActive = FALSE]
          /\ assignments' = CancelAssignments(assignments, id)
          /\ Reply("deleteUser", 200, caller, id, <<>>)
          /\ UNCHANGED <<projects, nextAssignment, now, inflight, db>>

(***************************************************************************)
(* routes/engineers.js: the workload view.  Hours are quarters, so         *)
(* total / availability * 100 is 25 * total / availability.                *)
(***************************************************************************)
\* Assignment.find({ assignee: id, status: { $in: ["active", "in-progress"] } })
ActiveAssignments(as, id) ==
  {i \in DOMAIN as : as[i].assignee = id /\ as[i].status \in {"active", "in-progress"}}

TotalEstimatedHours(as, ids) == SumOver(ids, [i \in ids |-> as[i].estimatedHours])

\* Math.max(0, availability - totalEstimatedHours), in quarters
AvailableHoursRaw(availability, total) == 4 * availability - total

AvailableHours(availability, total) == Max(0, 4 * availability - total)

\* Math.round(utilizationPercentage)
UtilizationPercentage(availability, total) == MathRound(25 * total, availability)

\* utilizationPercentage > 100, on the unrounded value
IsOverloaded(availability, total) == 25 * total > 100 * availability

\* utilizationPercentage < 50, on the unrounded value
HasCapacity(availability, total) == 25 * total < 50 * availability

OverdueAssignments(as, ids, t) == {i \in ids : as[i].deadline < t}

Recommendations(availability, total, overdue) ==
  (IF IsOverloaded(availability, total) THEN <<"warning">>
   ELSE IF HasCapacity(availability, total) THEN <<"info">>
   ELSE <<>>)
  \o (IF overdue > 0 THEN <<"urgent">> ELSE <<>>)

WorkloadAnalysis(us, as, id, t) ==
  LET ids == ActiveAssignments(as, id)
      total == TotalEstimatedHours(as, ids)
      overdue == Cardinality(OverdueAssignments(as, ids, t))
  IN [activeAssignments |-> Cardinality(ids),
      totalEstimatedHours |-> total,
      availableHours |-> AvailableHours(us[id].availability, total),
      utilizationPercentage |-> UtilizationPercentage(us[id].availability, total),
      isOverloaded |-> IsOverloaded(us[id].availability, total),
      overdueAssignments |-> overdue,
      recommendations |-> Recommendations(us[id].availability, total, overdue)]

\* GET /api/engineers/:id/workload
GetWorkload(caller, id) ==
  /\ Protect(caller)
  /\ IF ~(id \in DOMAIN users /\ users[id].role = "engineer" /\ users[id].isActive)
     THEN Reply("getWorkload", 404, caller, id, <<>>)
     ELSE IF users[caller].role = "engineer" /\ caller # id
     THEN Reply("getWorkload", 403, caller, id, <<>>)
     ELSE Reply("getWorkload", 200, caller, id, WorkloadAnalysis(users, assignments, id, now))
  /\ UNCHANGED <<users, projects, assignments, nextAssignment, now, inflight, db>>

\* Time passes.
Tick ==
  /\ now < MaxNow
  /\ now' = now + 1
  /\ UNCHANGED <<users, projects, assignments, nextAssignment, resp, inflight, db>>

(***************************************************************************)
(* Initial states and specifications.                                      *)
(***************************************************************************)
NoResponse == [op |-> "none", code |-> 0, caller |-> "none", id |-> 0, body |-> <<>>]

\* No request is between two of its awaits.
NoRequests == <<>>

\* connectDB has returned after one successful attempt.
Connected ==
  [pc |-> "connected", retries |-> 0, attempts |-> 1, waits |-> <<>>, elapsed |-> 0]

NewUser(role) ==
  [role |-> role, isActive |-> TRUE, firstName |-> "A", availability |-> 40,
   lastLogin |-> NoDate, loginAttempts |-> 0, lockUntil |-> NoDate]

NewProject(manager, deadline) ==
  [status |-> "planning", progress |-> 0, manager |-> manager,
   teamMembers |-> <<>>, deadline |-> deadline]

NoAssignments == [i \in {} |-> 0]

\* One admin, one manager, two engineers.
StaffUsers ==
  [u \in UserIds |-> NewUser(CASE u = "u1" -> "admin" [] u = "u2" -> "manager"
                             [] OTHER -> "engineer")]

\* The cascade of an assignment change: one project of manager u2, the
\* assignments are created, updated, commented and deleted.
Init ==
  /\ users = StaffUsers
  /\ projects = [p \in {"p1"} |-> NewProject("u2", MaxNow + 1)]
  /\ assignments = NoAssignments
  /\ nextAssignment = 1
  /\ now = 0
  /\ resp = NoResponse
  /\ inflight = NoRequests
  /\ db = Connected

\* Request bodies of PUT /api/assignments/:id.
ProgressBodies ==
  {[progress |-> v] : v \in {0, 25, 100}}
  \cup {[progress |-> 100, status |-> "on-hold"], [status |-> "pending"]}

CreateBody(p) ==
  [project |-> p, assignee |-> "u3", estimatedHours |-> 80, deadline |-> MaxNow + 1]

ProjectBodies == {[status |-> "cancelled"], [status |-> "planning"]}

NextCreateAssignment == \E p \in DOMAIN projects : CreateAssignment("u2", CreateBody(p))

NextUpdateAssignment ==
  \E c \in {"u2", "u3"}, i \in DOMAIN assignments, b \in ProgressBodies :
    UpdateAssignment(c, i, b)

NextAddComment == \E i \in DOMAIN assignments : AddComment("u3", i, TRUE)

NextDeleteAssignment == \E i \in DOMAIN assignments : DeleteAssignment("u2", i)

NextUpdateProject ==
  \E p \in DOMAIN projects, b \in ProjectBodies : UpdateProject("u2", p, b)

NextAddTeamMember == \E p \in DOMAIN projects : AddTeamMember("u2", p, "u3", TRUE)

NextRemoveTeamMember == \E p \in DOMAIN projects : RemoveTeamMember("u2", p, "u3")

Next ==
  \/ NextCreateAssignment
  \/ NextUpdateAssignment
  \/ NextAddComment
  \/ NextDeleteAssignment
  \/ NextUpdateProject
  \/ NextAddTeamMember
  \/ NextRemoveTeamMember

Spec == Init /\ [][Next]_vars

(***************************************************************************)
(* Claims checked under Spec.                                              *)
(***************************************************************************)
UpdatedAssignment ==
  /\ resp.op = "updateAssignment"
  /\ resp.code = 200
  /\ resp.id \in DOMAIN assignments

\* C2: immediately after a successful PUT /api/assignments/:id whose payload
\* sets progress to 100, the stored assignment has status "completed" and
\* completedAt set, whatever status the payload carried.
C2_ProgressHundredCompletes ==
  (UpdatedAssignment /\ Present(resp.body, "progress") /\ resp.body.progress = MaxProgress)
    => /\ assignments[resp.id].status = "completed"
       /\ assignments[resp.id].completedAt # NoDate

\* A PUT carrying progress 100 for an assignment that stays "active".
C2_Witness ==
  /\ UpdatedAssignment
  /\ Present(resp.body, "progress") /\ resp.body.progress = MaxProgress
  /\ assignments[resp.id].progress = MaxProgress
  /\ assignments[resp.id].status = "active"
  /\ assignments[resp.id].completedAt = NoDate

\* C4: when the recompute of PUT /api/assignments/:id brings the owning
\* project's progress to 100 the project is "completed" afterwards, and when
\* it brings the progress of a "planning" project above 0 the project is
\* "active" afterwards.
C4_ProjectStatusFollowsRecompute ==
  [][\A p \in (DOMAIN projects) \cap (DOMAIN projects') :
       (resp'.op = "updateAssignment" /\ resp'.code = 200
        /\ resp'.id \in DOMAIN assignments' /\ assignments'[resp'.id].project = p
        /\ projects'[p].progress # projects[p].progress)
         => /\ projects'[p].progress = MaxProgress => projects'[p].status = "completed"
            /\ (projects'[p].progress > 0 /\ projects[p].status = "planning")
                 => projects'[p].status = "active"]_vars

\* The recompute of a PUT has brought a project to 100 and left it "planning".
C4_Witness ==
  /\ UpdatedAssignment
  /\ assignments[resp.id].project \in DOMAIN projects
  /\ projects[assignments[resp.id].project].progress = MaxProgress
  /\ projects[assignments[resp.id].project].status = "planning"

\* C5: a project whose status is "completed" or "cancelled" keeps that status
\* through every step that is not a client write to the project
\* (PUT /api/projects/:id): the derivation never changes it.
C5_TerminalStatusKept ==
  [][\A p \in (DOMAIN projects) \cap (DOMAIN projects') :
       (projects[p].status \in {"completed", "cancelled"} /\ resp'.op # "updateProject")
         => projects'[p].status = projects[p].status]_vars

(***************************************************************************)
(* SpecProjects: two projects; assignments are created in either, updated, *)
(* moved between them, and the projects are deleted.                       *)
(***************************************************************************)
InitProjects ==
  /\ users = StaffUsers
  /\ projects = [p \in ProjectIds |-> NewProject("u2", MaxNow + 1)]
  /\ assignments = NoAssignments
  /\ nextAssignment = 1
  /\ now = 0
  /\ resp = NoResponse
  /\ inflight = NoRequests
  /\ db = Connected

MoveBodies ==
  {[progress |-> v] : v \in {0, 25, 100}} \cup {[project |-> "p2", progress |-> 100]}

NextMoveAssignment ==
  \E c \in {"u2", "u3"}, i \in DOMAIN assignments, b \in MoveBodies :
    UpdateAssignment(c, i, b)

NextDeleteProject == \E c \in {"u1", "u2"}, p \in DOMAIN projects : DeleteProject(c, p)

NextProjects ==
  \/ NextCreateAssignment
  \/ NextMoveAssignment
  \/ NextDeleteProject

SpecProjects == InitProjects /\ [][NextProjects]_vars

\* The nearest integer to total / n, halves upwards, stated by its bounds.
NearestInteger(total, n) ==
  CHOOSE k \in 0..(total \div n + 1) :
    2 * n * k <= 2 * total + n /\ 2 * total + n < 2 * n * (k + 1)

ExpectedProjectProgress(p) ==
  LET ids == {i \in DOMAIN assignments : assignments[i].project = p}
  IN IF ids = {} THEN 0
     ELSE NearestInteger(SumOver(ids, [i \in ids |-> assignments[i].progress]),
                         Cardinality(ids))

\* C3: after a successful PUT /api/assignments/:id that carries a progress,
\* the stored progress of the owning project is the rounded mean of the
\* progress of all assignments of that project.
C3_ProjectProgressIsRoundedMean ==
  (UpdatedAssignment /\ Present(resp.body, "progress")
   /\ assignments[resp.id].project \in DOMAIN projects)
    => projects[assignments[resp.id].project].progress
         = ExpectedProjectProgress(assignments[resp.id].project)

\* A project with two assignments of progress 0 and 25: the mean 12.5 is
\* stored as 13.
C3_Witness ==
  /\ UpdatedAssignment
  /\ Present(resp.body, "progress")
  /\ assignments[resp.id].project \in DOMAIN projects
  /\ LET p == assignments[resp.id].project
     IN /\ Cardinality(AssignmentsOf(assignments, p)) = 2
        /\ \E i \in AssignmentsOf(assignments, p) : assignments[i].progress = 0
        /\ assignments[resp.id].progress = 25
        /\ projects[p].progress = 13

\* C8: a project deletion by an admin or by the project's manager reports
\* success, and afterwards the project and every assignment of it are gone.
C8_ProjectDeleteCascades ==
  [][(resp'.op = "deleteProject" /\ resp'.id \in DOMAIN projects
      /\ (users[resp'.caller].role = "admin"
          \/ (users[resp'.caller].role = "manager"
              /\ projects[resp'.id].manager = resp'.caller)))
       => /\ resp'.code = 200
          /\ resp'.id \notin DOMAIN projects'
          /\ \A i \in DOMAIN assignments' : assignments'[i].project # resp'.id
          /\ \A i \in DOMAIN assignments :
               assignments[i].project # resp'.id
                 => (i \in DOMAIN assignments' /\ assignments'[i] = assignments[i])]_vars

\* Both assignments created were in p1 when p1 was deleted: none is left.
C8_Witness ==
  /\ resp.op = "deleteProject" /\ resp.code = 200 /\ resp.id = "p1"
  /\ DOMAIN projects = {"p2"}
  /\ nextAssignment = 3
  /\ DOMAIN assignments = {}

(***************************************************************************)
(* SpecHours: time entries are logged on the assignments of one project,   *)
(* and the manager also writes actualHours and timeEntries directly.       *)
(***************************************************************************)
HoursBodies == {[actualHours |-> 7], [timeEntries |-> <<2>>]}

NextAddTimeEntry ==
  \E i \in DOMAIN assignments, h \in {0, 3, 97} : AddTimeEntry("u3", i, h)

NextWriteHours ==
  \E i \in DOMAIN assignments, b \in HoursBodies : UpdateAssignment("u2", i, b)

NextHours ==
  \/ NextCreateAssignment
  \/ NextAddTimeEntry
  \/ NextWriteHours

SpecHours == Init /\ [][NextHours]_vars

\* C1: after every successful add-time-entry, the stored actualHours of the
\* assignment is the sum of the hours of all its time entries.
C1_ActualHoursIsSum ==
  (resp.op = "addTimeEntry" /\ resp.code = 201 /\ resp.id \in DOMAIN assignments)
    => assignments[resp.id].actualHours = SumSeq(assignments[resp.id].timeEntries)

\* An entry of 0.75h has just been logged after an entry of 0.5h.
C1_Witness ==
  /\ resp.op = "addTimeEntry" /\ resp.code = 201 /\ resp.id \in DOMAIN assignments
  /\ assignments[resp.id].timeEntries = <<2, 3>>
  /\ assignments[resp.id].actualHours = 5

(***************************************************************************)
(* SpecDerive: the derivation rules applied to stored data of every shape. *)
(* A PUT writes status, progress and actualHours as given, so every        *)
(* combination of them is a stored state; a comment then saves the         *)
(* assignment, which applies the rules.  The statuses drawn are one of     *)
(* each class the rules tell apart; actualHours is a value written         *)
(* directly, not the sum of the entries.                                   *)
(***************************************************************************)
StoredAssignments ==
  {[project |-> "p1", assignee |-> "u3", assignedBy |-> "u2", status |-> s,
    progress |-> v, estimatedHours |-> 80, actualHours |-> 7,
    deadline |-> MaxNow + 1, completedAt |-> NoDate, comments |-> <<>>,
    timeEntries |-> <<2, 4>>] :
     s \in {"active", "on-hold", "completed"}, v \in {0, 25, 100}}

StoredProjects ==
  {[status |-> s, progress |-> v, manager |-> "u2", teamMembers |-> <<>>,
    deadline |-> MaxNow + 1] : s \in {"planning", "cancelled", "completed"}, v \in {0, 100}}

InitDerive ==
  /\ users = StaffUsers
  /\ projects \in [{"p1"} -> StoredProjects]
  /\ assignments \in [1..MaxAssignments -> StoredAssignments]
  /\ nextAssignment = MaxAssignments + 1
  /\ now = 0
  /\ resp = NoResponse
  /\ inflight = NoRequests
  /\ db = Connected

NextDerive == NextAddComment

SpecDerive == InitDerive /\ [][NextDerive]_vars

\* The stored derived fields after the derivation rules are applied to
\* assignment i at time t (a save that modifies no data).
Derived(as, ps, i, m, t) == SaveAssignment(as, ps, i, as[i], m, t)

\* C6: applying the derivation rules a second time, later and with no data
\* change in between, leaves every stored field as the first application
\* left it.
C6_DerivationIdempotent ==
  \A i \in DOMAIN assignments, m \in BOOLEAN :
    LET first == Derived(assignments, projects, i, m, now)
        second == Derived(first.assignments, first.projects, i, m, now + 1)
    IN second = first

\* A comment has just saved an assignment and the rules have completed it
\* and its project.
C6_Witness ==
  /\ resp.op = "addComment" /\ resp.code = 201 /\ resp.id \in DOMAIN assignments
  /\ assignments[resp.id].status = "completed"
  /\ assignments[resp.id].completedAt = now
  /\ projects[assignments[resp.id].project].status = "completed"
  /\ Derived(assignments, projects, resp.id, FALSE, now + 1).assignments = assignments

(***************************************************************************)
(* SpecUsers: user records are updated and users are deleted; the stored   *)
(* assignments belong to the first admin or to an engineer.                *)
(***************************************************************************)
UserAssignments ==
  {[project |-> "p1", assignee |-> u, assignedBy |-> "u1", status |-> s,
    progress |-> 0, estimatedHours |-> 80, actualHours |-> 0,
    deadline |-> MaxNow + 1, completedAt |-> NoDate, comments |-> <<>>,
    timeEntries |-> <<>>] :
     u \in {"u1", "u3"}, s \in {"pending", "active"}}

InitUsers ==
  /\ \E r \in {"admin", "manager"} : users = [StaffUsers EXCEPT !["u2"].role = r]
  /\ projects = [p \in {"p1"} |-> NewProject("u2", MaxNow + 1)]
  /\ assignments \in [1..MaxAssignments -> UserAssignments]
  /\ nextAssignment = MaxAssignments + 1
  /\ now = 0
  /\ resp = NoResponse
  /\ inflight = NoRequests
  /\ db = Connected

UserBodies ==
  {[role |-> "admin", firstName |-> "X"], [availability |-> 20],
   [availability |-> 61, firstName |-> "X"]}

NextUpdateUser == \E c \in {"u2", "u3"}, b \in UserBodies : UpdateUser(c, "u3", b)

NextDeleteUser == \E c \in {"u1", "u2", "u3"}, id \in {"u1", "u2", "u3"} : DeleteUser(c, id)

NextUsers ==
  \/ NextUpdateUser
  \/ NextDeleteUser

SpecUsers == InitUsers /\ [][NextUsers]_vars

\* C7: when an engineer updates their own record, the fields of
\* {firstName, lastName, phone, location, skills, availability} that the
\* payload carries take the payload's value on success, and nothing else of
\* any user changes; in particular role is unchanged.
C7_EngineerSelfUpdateMasked ==
  [][(resp'.op = "updateUser" /\ resp'.caller = resp'.id /\ resp'.id \in DOMAIN users
      /\ users[resp'.caller].role = "engineer")
       => /\ \A u \in (DOMAIN users) \ {resp'.id} : users'[u] = users[u]
          /\ users'[resp'.id].role = users[resp'.id].role
          /\ \A f \in DOMAIN users[resp'.id] :
               IF resp'.code = 200 /\ f \in EngineerUserFields /\ f \in DOMAIN resp'.body
               THEN users'[resp'.id][f] = resp'.body[f]
               ELSE users'[resp'.id][f] = users[resp'.id][f]]_vars

\* The payload {role: "admin", firstName: "X"} of an engineer's self-update
\* was accepted: firstName is "X" and the role is still engineer.
C7_Witness ==
  /\ resp.op = "updateUser" /\ resp.code = 200 /\ resp.caller = resp.id
  /\ Present(resp.body, "role") /\ resp.body.role = "admin"
  /\ users[resp.id].role = "engineer"
  /\ users[resp.id].firstName = "X"

\* C9: a deletion request of an admin caller whose target is the only
\* active admin is answered 400 and changes nothing in the store.
C9_LastAdminKept ==
  [][(resp'.op = "deleteUser" /\ resp'.id \in DOMAIN users
      /\ users[resp'.caller].role = "admin"
      /\ users[resp'.id].role = "admin" /\ users[resp'.id].isActive
      /\ Cardinality({u \in DOMAIN users : users[u].role = "admin" /\ users[u].isActive}) = 1)
       => /\ resp'.code = 400
          /\ UNCHANGED <<users, assignments, projects>>]_vars

\* The only active admin, who has an active assignment, was the target of a
\* refused deletion.
C9_Witness ==
  /\ resp.op = "deleteUser" /\ resp.code = 400
  /\ users[resp.id].role = "admin" /\ users[resp.id].isActive
  /\ Cardinality({u \in DOMAIN users : users[u].role = "admin" /\ users[u].isActive}) = 1
  /\ \E i \in DOMAIN assignments :
       assignments[i].assignee = resp.id /\ assignments[i].status = "active"

\* C19: a successful user deletion keeps the user record, sets isActive to
\* FALSE, and leaves every assignment of that user that was pending, active,
\* in-progress or on-hold with status "cancelled".
C19_DeleteCancelsOpenAssignments ==
  [][(resp'.op = "deleteUser" /\ resp'.code = 200)
       => /\ resp'.id \in DOMAIN users'
          /\ ~users'[resp'.id].isActive
          /\ \A i \in DOMAIN assignments :
               (assignments[i].assignee = resp'.id
                /\ assignments[i].status \in {"pending", "active", "in-progress", "on-hold"})
                 => (i \in DOMAIN assignments' /\ assignments'[i].status = "cancelled")]_vars

\* A user was deactivated and an assignment of that user is still pending.
C19_Witness ==
  /\ resp.op = "deleteUser" /\ resp.code = 200
  /\ ~users[resp.id].isActive
  /\ \E i \in DOMAIN assignments :
       assignments[i].assignee = resp.id /\ assignments[i].status = "pending"

(***************************************************************************)
(* SpecWorkload: the workload view over stored assignments of every        *)
(* status, for engineers of two availabilities.                            *)
(***************************************************************************)
WorkloadAssignments ==
  {[project |-> "p1", assignee |-> u, assignedBy |-> "u2", status |-> s,
    progress |-> 0, estimatedHours |-> h, actualHours |-> 0,
    deadline |-> MaxNow + 1, completedAt |-> NoDate, comments |-> <<>>,
    timeEntries |-> <<>>] :
     u \in {"u3", "u4"}, s \in AssignmentStatuses, h \in {80, 100}}

InitWorkload ==
  /\ \E v \in {40, 60} : users = [StaffUsers EXCEPT !["u3"].availability = v]
  /\ projects = [p \in {"p1"} |-> NewProject("u2", MaxNow + 1)]
  /\ assignments \in [1..MaxAssignments -> WorkloadAssignments]
  /\ nextAssignment = MaxAssignments + 1
  /\ now = 0
  /\ resp = NoResponse
  /\ inflight = NoRequests
  /\ db = Connected

NextGetWorkload == \E c \in {"u2", "u3"}, id \in {"u2", "u3", "u4"} : GetWorkload(c, id)

NextWorkload ==
  \/ NextGetWorkload
  \/ Tick

SpecWorkload == InitWorkload /\ [][NextWorkload]_vars

MaxEstimate == 244

InitOverload ==
  /\ \E v \in MinAvailability..MaxAvailability :
       users = [StaffUsers EXCEPT !["u3"].availability = v]
  /\ projects = [p \in {"p1"} |-> NewProject("u2", MaxNow + 1)]
  /\ \E h \in MinEstimatedHours..MaxEstimate :
       assignments = [i \in {1} |->
         [project |-> "p1", assignee |-> "u3", assignedBy |-> "u2", status |-> "active",
          progress |-> 0, estimatedHours |-> h, actualHours |-> 0,
          deadline |-> MaxNow + 1, completedAt |-> NoDate, comments |-> <<>>,
          timeEntries |-> <<>>]]
  /\ nextAssignment = 2
  /\ now = 0
  /\ resp = NoResponse
  /\ inflight = NoRequests
  /\ db = Connected

NextOwnWorkload == \E c \in {"u2", "u3"} : GetWorkload(c, "u3")

SpecOverload == InitOverload /\ [][NextOwnWorkload]_vars

\* C11: in the workload response isOverloaded is true exactly when the
\* reported (rounded) utilizationPercentage is greater than 100.
C11_OverloadedIffRoundedOver ==
  (resp.op = "getWorkload" /\ resp.code = 200)
    => (resp.body.isOverloaded <=> resp.body.utilizationPercentage > 100)

\* Availability 60 h with one estimate of 60.25 h: reported 100 % and
\* overloaded.
C11_Witness ==
  /\ resp.op = "getWorkload" /\ resp.code = 200
  /\ users[resp.id].availability = 60
  /\ resp.body.totalEstimatedHours = 241
  /\ resp.body.utilizationPercentage = 100
  /\ resp.body.isOverloaded

(***************************************************************************)
(* Read routes of assignments and projects.  A list response carries the   *)
(* query and the ids of the documents returned; a single read carries the  *)
(* id of the document returned.                                            *)
(***************************************************************************)
NoQuery == <<>>

\* Project.find({ manager: req.user.id }).select("_id")
ManagedProjects(ps, caller) == {p \in DOMAIN ps : ps[p].manager = caller}

\* GET /api/assignments: the query object after the role scope and the
\* filters of the query string were assigned to it.  A filter assigned later
\* replaces the scope stored under the same key.
AssignmentQuery(caller, q, a) ==
  /\ IF Present(q, "assignee") THEN a.assignee = q.assignee
     ELSE users[caller].role = "engineer" => a.assignee = caller
  /\ IF Present(q, "project") THEN a.project = q.project
     ELSE users[caller].role = "manager" => a.project \in ManagedProjects(projects, caller)
  /\ Present(q, "status") => a.status = q.status

\* GET /api/assignments
ListAssignments(caller, q) ==
  /\ Protect(caller)
  /\ Reply("listAssignments", 200, caller, 0,
           [query |-> q,
            data |-> {i \in DOMAIN assignments : AssignmentQuery(caller, q, assignments[i])}])
  /\ UNCHANGED <<users, projects, assignments, nextAssignment, now, inflight, db>>

\* GET /api/assignments/:id
GetAssignment(caller, id) ==
  /\ Protect(caller)
  /\ IF id \notin DOMAIN assignments
     THEN Reply("getAssignment", 404, caller, id, <<>>)
     ELSE IF users[caller].role = "engineer" /\ assignments[id].assignee \notin DOMAIN users
     THEN \* the populated assignee is null; reading assignee._id throws
          Reply("getAssignment", 500, caller, id, <<>>)
     ELSE IF users[caller].role = "engineer" /\ assignments[id].assignee # caller
     THEN Reply("getAssignment", 403, caller, id, <<>>)
     ELSE Reply("getAssignment", 200, caller, id, assignments[id])
  /\ UNCHANGED <<users, projects, assignments, nextAssignment, now, inflight, db>>

\* Assignment.find({ assignee: req.user.id }).distinct("project")
AssignedProjects(as, caller) == {as[i].project : i \in {j \in DOMAIN as : as[j].assignee = caller}}

\* GET /api/projects: the query object.
ProjectQuery(caller, q, pid) ==
  /\ users[caller].role = "manager" => projects[pid].manager = caller
  /\ users[caller].role = "engineer" => pid \in AssignedProjects(assignments, caller)
  /\ Present(q, "status") => projects[pid].status = q.status

\* GET /api/projects
ListProjects(caller, q) ==
  /\ Protect(caller)
  /\ Reply("listProjects", 200, caller, "none",
           [query |-> q, data |-> {p \in DOMAIN projects : ProjectQuery(caller, q, p)}])
  /\ UNCHANGED <<users, projects, assignments, nextAssignment, now, inflight, db>>

\* GET /api/projects/:id
GetProject(caller, id) ==
  /\ Protect(caller)
  /\ IF id \notin DOMAIN projects
     THEN Reply("getProject", 404, caller, id, <<>>)
     ELSE IF users[caller].role = "manager" /\ projects[id].manager \notin DOMAIN users
     THEN \* the populated manager is null; reading manager._id throws
          Reply("getProject", 500, caller, id, <<>>)
     ELSE IF users[caller].role = "manager" /\ projects[id].manager # caller
     THEN Reply("getProject", 403, caller, id, <<>>)
     ELSE IF users[caller].role = "engineer" /\ ~InTeam(projects[id], caller)
     THEN Reply("getProject", 403, caller, id, <<>>)
     ELSE Reply("getProject", 200, caller, id, projects[id])
  /\ UNCHANGED <<users, projects, assignments, nextAssignment, now, inflight, db>>

(***************************************************************************)
(* SpecAccess: reads of stored assignments and projects.  Project p1 is    *)
(* managed by the manager u2 and p2 by the admin u1; an engineer may be a  *)
(* team member of a project, an assignee in it, both or neither.           *)
(***************************************************************************)
AccessAssignments ==
  {[project |-> p, assignee |-> u, assignedBy |-> "u1", status |-> s,
    progress |-> 0, estimatedHours |-> 80, actualHours |-> 0,
    deadline |-> MaxNow + 1, completedAt |-> NoDate, comments |-> <<>>,
    timeEntries |-> <<>>] :
     p \in ProjectIds, u \in {"u3", "u4"}, s \in {"active", "on-hold"}}

Teams == {<<>>, <<"u3">>}

InitAccess ==
  /\ users = StaffUsers
  /\ \E t1 \in Teams, t2 \in Teams :
       projects = [p \in ProjectIds |->
         IF p = "p1" THEN [NewProject("u2", MaxNow + 1) EXCEPT !.teamMembers = t1]
         ELSE [NewProject("u1", MaxNow + 1) EXCEPT !.teamMembers = t2]]
  /\ assignments \in [1..MaxAssignments -> AccessAssignments]
  /\ nextAssignment = MaxAssignments + 1
  /\ now = 0
  /\ resp = NoResponse
  /\ inflight = NoRequests
  /\ db = Connected

AssignmentQueries ==
  {[status |-> "active"], [project |-> "p2"], [assignee |-> "u4"]}

NextListAssignments ==
  \E c \in {"u2", "u3"} :
    \/ ListAssignments(c, NoQuery)
    \/ \E q \in AssignmentQueries : ListAssignments(c, q)

NextGetAssignment ==
  \E c \in {"u2", "u3"}, i \in 1..(MaxAssignments + 1) : GetAssignment(c, i)

NextListProjects ==
  \E c \in {"u2", "u3"} :
    \/ ListProjects(c, NoQuery)
    \/ ListProjects(c, [status |-> "planning"])

NextGetProject ==
  \E c \in {"u2", "u3"}, p \in ProjectIds \cup {"p3"} : GetProject(c, p)

NextAccess ==
  \/ NextListAssignments
  \/ NextGetAssignment
  \/ NextListProjects
  \/ NextGetProject

SpecAccess == InitAccess /\ [][NextAccess]_vars

\* C12: for an engineer or manager caller every assignment returned by the
\* assignment list is inside the caller's role scope (engineer: the caller
\* is the assignee; manager: the caller manages the assignment's project),
\* whatever filters the query carries.
C12_ListWithinScope ==
  (resp.op = "listAssignments" /\ resp.code = 200) =>
    \A i \in resp.body.data :
      /\ users[resp.caller].role = "engineer" => assignments[i].assignee = resp.caller
      /\ users[resp.caller].role = "manager" =>
           (assignments[i].project \in DOMAIN projects
            /\ projects[assignments[i].project].manager = resp.caller)

\* An engineer's list with the filter assignee = u4 returned an assignment of
\* u4.
C12_Witness ==
  /\ resp.op = "listAssignments" /\ resp.code = 200
  /\ users[resp.caller].role = "engineer"
  /\ Present(resp.body.query, "assignee")
  /\ \E i \in resp.body.data : assignments[i].assignee # resp.caller

\* C13: a manager's read of a single assignment returns the assignment only
\* when the manager manages the assignment's project.
C13_ManagerReadsOwnProjectsOnly ==
  (resp.op = "getAssignment" /\ resp.code = 200 /\ users[resp.caller].role = "manager")
    => (assignments[resp.id].project \in DOMAIN projects
        /\ projects[assignments[resp.id].project].manager = resp.caller)

\* Manager u2 was returned an assignment of project p2, which u1 manages.
C13_Witness ==
  /\ resp.op = "getAssignment" /\ resp.code = 200 /\ resp.caller = "u2"
  /\ assignments[resp.id].project = "p2"
  /\ projects["p2"].manager # "u2"

\* C14: for an engineer caller the unfiltered project list holds exactly the
\* projects whose teamMembers contain the caller, and GET /api/projects/:id
\* of an existing project is permitted under the same condition.
C14_ListAgreesWithRead ==
  /\ (resp.op = "listProjects" /\ resp.code = 200 /\ users[resp.caller].role = "engineer"
      /\ resp.body.query = NoQuery)
       => resp.body.data = {p \in DOMAIN projects : InTeam(projects[p], resp.caller)}
  /\ (resp.op = "getProject" /\ users[resp.caller].role = "engineer"
      /\ resp.id \in DOMAIN projects)
       => (resp.code = 200 <=> InTeam(projects[resp.id], resp.caller))

\* The engineer's list shows p1, where the engineer has an assignment and is
\* no team member, so that a read of p1 is refused.
C14_Witness ==
  /\ resp.op = "listProjects" /\ resp.code = 200 /\ resp.caller = "u3"
  /\ "p1" \in resp.body.data
  /\ ~InTeam(projects["p1"], "u3")

\* The role scope of the access rules: the assignments and projects a caller
\* may see.
InAssignmentScope(caller, i) ==
  CASE users[caller].role = "engineer" -> assignments[i].assignee = caller
    [] users[caller].role = "manager" ->
         (assignments[i].project \in DOMAIN projects
          /\ projects[assignments[i].project].manager = caller)
    [] OTHER -> TRUE

InProjectScope(caller, p) ==
  CASE users[caller].role = "engineer" -> InTeam(projects[p], caller)
    [] users[caller].role = "manager" -> projects[p].manager = caller
    [] OTHER -> TRUE

\* C17: a read by id of an existing assignment or project that the caller's
\* role scope hides is answered as a read of an id that does not exist, 404.
C17_HiddenReadsAsNotFound ==
  /\ (resp.op = "getAssignment" /\ resp.id \in DOMAIN assignments
      /\ ~InAssignmentScope(resp.caller, resp.id)) => resp.code = 404
  /\ (resp.op = "getProject" /\ resp.id \in DOMAIN projects
      /\ ~InProjectScope(resp.caller, resp.id)) => resp.code = 404

\* An engineer's read of another engineer's assignment was answered 403,
\* which a read of a missing id never is.
C17_Witness ==
  /\ resp.op = "getAssignment" /\ resp.id \in DOMAIN assignments
  /\ users[resp.caller].role = "engineer"
  /\ assignments[resp.id].assignee # resp.caller
  /\ resp.code = 403

(***************************************************************************)
(* SpecPermit: who may update an assignment, and what an update writes.    *)
(* Project p1 is managed by the manager u2 and p2 by the admin u1; the     *)
(* assignments were assigned by the admin, by the manager, or by u4, who   *)
(* has since become an engineer.                                           *)
(***************************************************************************)
PermitAssignments ==
  {[project |-> p, assignee |-> "u3", assignedBy |-> b, status |-> "active",
    progress |-> 0, estimatedHours |-> 80, actualHours |-> 0,
    deadline |-> MaxNow + 1, completedAt |-> NoDate, comments |-> <<>>,
    timeEntries |-> <<>>] :
     p \in ProjectIds, b \in {"u1", "u2", "u4"}}

InitPermit ==
  /\ users = StaffUsers
  /\ projects = [p \in ProjectIds |->
                   NewProject(IF p = "p1" THEN "u2" ELSE "u1", MaxNow + 1)]
  /\ assignments \in [1..MaxAssignments -> PermitAssignments]
  /\ nextAssignment = MaxAssignments + 1
  /\ now = 0
  /\ resp = NoResponse
  /\ inflight = NoRequests
  /\ db = Connected

PermitBodies ==
  {[progress |-> 25, actualHours |-> 4, estimatedHours |-> 40], [progress |-> 101]}

NextPermitUpdate ==
  \E c \in {"u2", "u3", "u4"}, i \in DOMAIN assignments, b \in PermitBodies :
    UpdateAssignment(c, i, b)

SpecPermit == InitPermit /\ [][NextPermitUpdate]_vars

\* C15: an update of an existing assignment by an engineer who is neither
\* its assignee nor its assignedBy is answered 403 and changes no assignment;
\* otherwise, on success, the fields progress, status and actualHours that
\* the payload carries take the payload's value and every other field of
\* every assignment keeps its value.
C15_EngineerUpdateMasked ==
  [][(resp'.op = "updateAssignment" /\ resp'.id \in DOMAIN assignments
      /\ users[resp'.caller].role = "engineer")
       => IF resp'.caller \notin {assignments[resp'.id].assignee,
                                   assignments[resp'.id].assignedBy}
          THEN resp'.code = 403 /\ assignments' = assignments
          ELSE /\ DOMAIN assignments' = DOMAIN assignments
               /\ \A i \in (DOMAIN assignments) \ {resp'.id} :
                    assignments'[i] = assignments[i]
               /\ \A f \in DOMAIN assignments[resp'.id] :
                    IF resp'.code = 200 /\ f \in {"progress", "status", "actualHours"}
                       /\ f \in DOMAIN resp'.body
                    THEN assignments'[resp'.id][f] = resp'.body[f]
                    ELSE assignments'[resp'.id][f] = assignments[resp'.id][f]]_vars

\* The assignee, an engineer, sent progress, actualHours and estimatedHours:
\* the first two were written, the estimate was not.
C15_Witness ==
  /\ resp.op = "updateAssignment" /\ resp.code = 200
  /\ resp.id \in DOMAIN assignments
  /\ users[resp.caller].role = "engineer"
  /\ assignments[resp.id].assignee = resp.caller
  /\ Present(resp.body, "estimatedHours") /\ resp.body.estimatedHours = 40
  /\ assignments[resp.id].progress = 25
  /\ assignments[resp.id].actualHours = 4
  /\ assignments[resp.id].estimatedHours = 80

\* C16: an update of an existing assignment by a manager is permitted (not
\* answered 403) exactly when that manager manages the assignment's project.
C16_ManagerUpdatesOwnProjects ==
  (resp.op = "updateAssignment" /\ resp.id \in DOMAIN assignments
   /\ users[resp.caller].role = "manager"
   /\ assignments[resp.id].project \in DOMAIN projects)
    => (resp.code # 403 <=> projects[assignments[resp.id].project].manager = resp.caller)

\* The manager of p1 was refused the update of an assignment of p1 that the
\* admin had assigned.
C16_Witness ==
  /\ resp.op = "updateAssignment" /\ resp.code = 403 /\ resp.caller = "u2"
  /\ resp.id \in DOMAIN assignments
  /\ assignments[resp.id].project = "p1" /\ projects["p1"].manager = "u2"
  /\ assignments[resp.id].assignedBy = "u1"

(***************************************************************************)
(* The assignment routes when the store fails during the recompute of the  *)
(* project, after the assignment was written.  None of the routes catches  *)
(* the error of the recompute separately: it reaches the catch block of    *)
(* the handler, which answers 500.                                         *)
(***************************************************************************)
\* PUT /api/assignments/:id, a store call of lines 309-328 throws.
UpdateAssignmentRecomputeFails(caller, id, body) ==
  /\ Protect(caller)
  /\ id \in DOMAIN assignments
  /\ LET a == assignments[id]
         role == users[caller].role
         updateFields == IF role = "engineer"
                         THEN Pick(body, EngineerAssignmentFields)
                         ELSE body
         as2 == [assignments EXCEPT ![id] = SetFields(a, updateFields)]
     IN /\ role = "admin" \/ a.assignedBy = caller \/ a.assignee = caller
        /\ ValidAssignmentUpdate(updateFields, now)
        /\ as2[id].project \in DOMAIN projects
        /\ assignments' = as2
  /\ Reply("updateAssignment", 500, caller, id, body)
  /\ UNCHANGED <<users, projects, nextAssignment, now, inflight, db>>

\* POST /api/assignments/:id/comments, post("save") throws: save() rejects
\* after the document was written.
AddCommentRecomputeFails(caller, id) ==
  /\ Protect(caller)
  /\ id \in DOMAIN assignments
  /\ users[caller].role = "engineer" => assignments[id].assignee = caller
  /\ AssignmentSaveValid(assignments[id], now)
  /\ assignments[id].project \in DOMAIN projects
  /\ Len(assignments[id].comments) < MaxComments
  /\ assignments' = [assignments EXCEPT ![id] =
                       AssignmentPreSave([@ EXCEPT !.comments = Append(@, caller)], FALSE, now)]
  /\ Reply("addComment", 500, caller, id, TRUE)
  /\ UNCHANGED <<users, projects, nextAssignment, now, inflight, db>>

\* POST /api/assignments/:id/time-entries, post("save") throws.
AddTimeEntryRecomputeFails(caller, id, hours) ==
  /\ Protect(caller)
  /\ id \in DOMAIN assignments
  /\ assignments[id].assignee = caller
  /\ hours >= MinEntryHours /\ hours <= MaxEntryHours
  /\ AssignmentSaveValid(assignments[id], now)
  /\ assignments[id].project \in DOMAIN projects
  /\ Len(assignments[id].timeEntries) < MaxEntries
  /\ assignments' = [assignments EXCEPT ![id] =
                       AssignmentPreSave([@ EXCEPT !.timeEntries = Append(@, hours)], TRUE, now)]
  /\ Reply("addTimeEntry", 500, caller, id, hours)
  /\ UNCHANGED <<users, projects, nextAssignment, now, inflight, db>>

(***************************************************************************)
(* SpecFailure: assignments of one project are created, updated, commented *)
(* and logged against by the assignee, and the store may fail during any   *)
(* recompute of the project.                                               *)
(***************************************************************************)
NextEngineerUpdate ==
  \E i \in DOMAIN assignments : UpdateAssignment("u3", i, [progress |-> 25])

NextEngineerEntry == \E i \in DOMAIN assignments : AddTimeEntry("u3", i, 3)

NextUpdateRecomputeFails ==
  \E i \in DOMAIN assignments : UpdateAssignmentRecomputeFails("u3", i, [progress |-> 25])

NextCommentRecomputeFails ==
  \E i \in DOMAIN assignments : AddCommentRecomputeFails("u3", i)

NextEntryRecomputeFails ==
  \E i \in DOMAIN assignments : AddTimeEntryRecomputeFails("u3", i, 3)

NextFailure ==
  \/ NextCreateAssignment
  \/ NextEngineerUpdate
  \/ NextAddComment
  \/ NextEngineerEntry
  \/ NextUpdateRecomputeFails
  \/ NextCommentRecomputeFails
  \/ NextEntryRecomputeFails

SpecFailure == Init /\ [][NextFailure]_vars

\* C18: whenever an update, a comment or a time entry has persisted a change
\* of an assignment, the operation reports success, also when the recompute
\* of the project failed afterwards.
C18_RecomputeFailureNotSurfaced ==
  [][(resp'.op \in {"updateAssignment", "addComment", "addTimeEntry"}
      /\ assignments' # assignments)
       => resp'.code \in {200, 201}]_vars

\* A comment is stored on the assignment, the project was not recomputed,
\* and the request was answered 500.
C18_Witness ==
  /\ resp.op = "addComment" /\ resp.code = 500
  /\ resp.id \in DOMAIN assignments
  /\ Len(assignments[resp.id].comments) = 1
  /\ assignments[resp.id].progress = 25
  /\ projects[assignments[resp.id].project].progress = 0

(***************************************************************************)
(* Read routes of users and engineers, and the login.                      *)
(***************************************************************************)
\* GET /api/users; the query starts as { isActive: true }.
ListUsers(caller, q) ==
  /\ Protect(caller)
  /\ IF ~IsAdminOrManager(caller)
     THEN Reply("listUsers", 403, caller, "none", [query |-> q, data |-> {}])
     ELSE Reply("listUsers", 200, caller, "none",
                [query |-> q,
                 data |-> {u \in DOMAIN users :
                             /\ users[u].isActive
                             /\ Present(q, "role") => users[u].role = q.role}])
  /\ UNCHANGED <<users, projects, assignments, nextAssignment, now, inflight, db>>

\* GET /api/users/:id
GetUser(caller, id) ==
  /\ Protect(caller)
  /\ IF id \notin DOMAIN users
     THEN Reply("getUser", 404, caller, id, <<>>)
     ELSE IF users[caller].role = "engineer" /\ caller # id
     THEN Reply("getUser", 403, caller, id, <<>>)
     ELSE Reply("getUser", 200, caller, id, users[id])
  /\ UNCHANGED <<users, projects, assignments, nextAssignment, now, inflight, db>>

\* GET /api/engineers
ListEngineers(caller) ==
  /\ Protect(caller)
  /\ IF ~IsAdminOrManager(caller)
     THEN Reply("listEngineers", 403, caller, "none", [query |-> NoQuery, data |-> {}])
     ELSE Reply("listEngineers", 200, caller, "none",
                [query |-> NoQuery,
                 data |-> {u \in DOMAIN users :
                             users[u].role = "engineer" /\ users[u].isActive}])
  /\ UNCHANGED <<users, projects, assignments, nextAssignment, now, inflight, db>>

\* GET /api/engineers/:id
GetEngineer(caller, id) ==
  /\ Protect(caller)
  /\ IF ~(id \in DOMAIN users /\ users[id].role = "engineer" /\ users[id].isActive)
     THEN Reply("getEngineer", 404, caller, id, <<>>)
     ELSE IF users[caller].role = "engineer" /\ caller # id
     THEN Reply("getEngineer", 403, caller, id, <<>>)
     ELSE Reply("getEngineer", 200, caller, id, users[id])
  /\ UNCHANGED <<users, projects, assignments, nextAssignment, now, inflight, db>>

\* POST /api/auth/login with the e-mail of user id; hasPassword is FALSE for
\* a body without password, matches tells whether the password is the
\* user's.  lastLogin and loginAttempts, which a login writes, are not part
\* of the user record kept here.
UpdateLastLogin(user, t) ==
  [user EXCEPT !.lastLogin = t, !.loginAttempts = 0, !.lockUntil = NoDate]

Login(id, hasPassword, matches) ==
  /\ IF ~hasPassword
     THEN Reply("login", 400, "none", id, matches) /\ UNCHANGED users
     ELSE IF id \notin DOMAIN users
     THEN Reply("login", 401, "none", id, matches) /\ UNCHANGED users
     ELSE IF ~users[id].isActive
     THEN Reply("login", 401, "none", id, matches) /\ UNCHANGED users
     ELSE IF ~matches
     THEN Reply("login", 401, "none", id, matches) /\ UNCHANGED users
     ELSE /\ users' = [users EXCEPT ![id] = UpdateLastLogin(@, now)]
          /\ Reply("login", 200, "none", id, matches)
  /\ UNCHANGED <<projects, assignments, nextAssignment, now, inflight, db>>

(***************************************************************************)
(* SpecDeactivate: the admin deactivates users, and users are read and log *)
(* in.                                                                     *)
(***************************************************************************)
NextDeactivate == \E id \in {"u2", "u3", "u4"} : DeleteUser("u1", id)

NextListUsers ==
  \E c \in {"u1", "u3"} :
    \/ ListUsers(c, NoQuery)
    \/ ListUsers(c, [role |-> "engineer"])

NextGetUser == \E c \in {"u1", "u3"}, id \in {"u2", "u3", "u9"} : GetUser(c, id)

NextListEngineers == \E c \in {"u1", "u3"} : ListEngineers(c)

NextGetEngineer == \E c \in {"u1", "u3"}, id \in {"u2", "u3", "u4"} : GetEngineer(c, id)

NextReadWorkload == \E id \in {"u3", "u4"} : GetWorkload("u1", id)

NextLogin ==
  \E id \in {"u3", "u9"}, hasPassword \in BOOLEAN, matches \in BOOLEAN :
    Login(id, hasPassword, matches)

NextDeactivated ==
  \/ NextDeactivate
  \/ NextListUsers
  \/ NextGetUser
  \/ NextListEngineers
  \/ NextGetEngineer
  \/ NextReadWorkload
  \/ NextLogin

SpecDeactivate == Init /\ [][NextDeactivated]_vars

\* C20: no user read returns a deactivated user (the user list, the single
\* user read, the engineer list, the engineer detail, the workload), and a
\* login of a deactivated user with the correct password is rejected.
C20_DeactivatedNeverReturned ==
  /\ (resp.op \in {"listUsers", "listEngineers"} /\ resp.code = 200)
       => \A u \in resp.body.data : users[u].isActive
  /\ (resp.op \in {"getUser", "getEngineer", "getWorkload", "login"}
      /\ resp.id \in DOMAIN users /\ ~users[resp.id].isActive)
       => resp.code # 200

\* The admin read the record of a deactivated user and was answered 200.
C20_Witness ==
  /\ resp.op = "getUser" /\ resp.code = 200 /\ resp.caller = "u1"
  /\ resp.id \in DOMAIN users
  /\ ~users[resp.id].isActive
  /\ ~resp.body.isActive

(***************************************************************************)
(* SpecProjectWrite: the admin and the manager write the project with      *)
(* PUT /api/projects/:id while assignments of it are created, updated and  *)
(* commented.                                                              *)
(***************************************************************************)
ProjectWriteBodies ==
  {[progress |-> 50], [status |-> "active"], [progress |-> 101]}

NextWriteProject ==
  \E c \in {"u1", "u2"}, p \in DOMAIN projects, b \in ProjectWriteBodies :
    UpdateProject(c, p, b)

NextProjectWrite ==
  \/ NextCreateAssignment
  \/ NextEngineerUpdate
  \/ NextAddComment
  \/ NextWriteProject

SpecProjectWrite == Init /\ [][NextProjectWrite]_vars

\* C21: no PUT /api/projects/:id changes the stored progress of a project.
C21_ClientWriteKeepsProgress ==
  [][resp'.op = "updateProject"
       => \A p \in (DOMAIN projects) \cap (DOMAIN projects') :
            projects'[p].progress = projects[p].progress]_vars

\* The payload {progress: 50} was accepted and the project, which has no
\* assignment of progress 50, stores 50.
C21_Witness ==
  /\ resp.op = "updateProject" /\ resp.code = 200
  /\ Present(resp.body, "progress") /\ resp.body.progress = 50
  /\ projects[resp.id].progress = 50
  /\ \A i \in DOMAIN assignments : assignments[i].progress # 50

(***************************************************************************)
(* routes/engineers.js: the overview.  Projects carry budget and           *)
(* budgetUsed here.  The assignment query of a manager is { manager: id }, *)
(* a path the assignment schema does not have: with strictQuery on,        *)
(* Mongoose drops the condition and every assignment matches; with         *)
(* strictQuery off the condition reaches the store and no assignment       *)
(* matches.  The default differs between Mongoose versions, so the setting *)
(* is an input of the request.                                             *)
(***************************************************************************)
\* $match of the project aggregation
OverviewProjects(caller) ==
  {p \in DOMAIN projects :
     /\ users[caller].role = "manager" => projects[p].manager = caller
     /\ users[caller].role = "engineer" => p \in AssignedProjects(assignments, caller)}

\* Assignment.find(assignmentQuery)
OverviewAssignments(caller, strictQuery) ==
  {i \in DOMAIN assignments :
     /\ users[caller].role = "manager" => strictQuery
     /\ users[caller].role = "engineer" => assignments[i].assignee = caller}

\* projectData with budgetUtilization
ProjectStats(ps) ==
  LET total == SumOver(ps, [p \in ps |-> projects[p].budget])
      used == SumOver(ps, [p \in ps |-> projects[p].budgetUsed])
  IN [totalProjects |-> Cardinality(ps),
      activeProjects |-> Cardinality({p \in ps : projects[p].status = "active"}),
      completedProjects |-> Cardinality({p \in ps : projects[p].status = "completed"}),
      totalBudget |-> total,
      totalBudgetUsed |-> used,
      budgetUtilization |-> IF total # 0 THEN MathRound(100 * used, total) ELSE 0]

\* assignmentData
AssignmentStats(ids, t) ==
  [totalAssignments |-> Cardinality(ids),
   activeAssignments |->
     Cardinality({i \in ids : assignments[i].status \in {"active", "in-progress"}}),
   completedAssignments |-> Cardinality({i \in ids : assignments[i].status = "completed"}),
   overdueAssignments |->
     Cardinality({i \in ids : assignments[i].deadline < t
                                /\ assignments[i].status # "completed"})]

\* GET /api/engineers/overview.  The averages of utilization and efficiency
\* of the engineers are not part of the response kept here.
Overview(caller, strictQuery) ==
  /\ Protect(caller)
  /\ Reply("overview", 200, caller, "none",
           [strictQuery |-> strictQuery,
            projects |-> ProjectStats(OverviewProjects(caller)),
            assignments |-> AssignmentStats(OverviewAssignments(caller, strictQuery), now),
            engineers |-> Cardinality({u \in DOMAIN users :
                                         users[u].role = "engineer" /\ users[u].isActive})])
  /\ UNCHANGED <<users, projects, assignments, nextAssignment, now, inflight, db>>

(***************************************************************************)
(* SpecOverview: the overview over stored projects of two managers and     *)
(* their assignments, requested before and after the deadlines.  The clock *)
(* stands still within a behaviour, so that the response kept in resp is   *)
(* the response at time now.                                               *)
(***************************************************************************)
OverviewAssignmentDocs ==
  {[project |-> p, assignee |-> "u3", assignedBy |-> "u1", status |-> s,
    progress |-> 0, estimatedHours |-> 80, actualHours |-> 0,
    deadline |-> d, completedAt |-> NoDate, comments |-> <<>>,
    timeEntries |-> <<>>] :
     p \in ProjectIds, s \in {"active", "on-hold", "completed"}, d \in {1, MaxNow + 1}}

Budgets == {<<0, 0>>, <<100, 50>>, <<200, 25>>}

OverviewProject(manager, status, budget) ==
  [status |-> status, progress |-> 0, manager |-> manager, teamMembers |-> <<>>,
   deadline |-> MaxNow + 1, budget |-> budget[1], budgetUsed |-> budget[2]]

InitOverview ==
  /\ users = StaffUsers
  /\ \E s \in {"planning", "active"}, b \in Budgets :
       projects = [p \in ProjectIds |->
         IF p = "p1" THEN OverviewProject("u2", s, b)
         ELSE OverviewProject("u1", "completed", <<100, 50>>)]
  /\ assignments \in [1..MaxAssignments -> OverviewAssignmentDocs]
  /\ nextAssignment = MaxAssignments + 1
  /\ now \in 0..MaxNow
  /\ resp = NoResponse
  /\ inflight = NoRequests
  /\ db = Connected

NextOverview == \E c \in {"u1", "u2", "u3"}, strictQuery \in BOOLEAN : Overview(c, strictQuery)

SpecOverview == InitOverview /\ [][NextOverview]_vars

\* C22: for a manager caller the assignment counts of the overview are those
\* of the assignments whose project the caller manages, the project counts
\* those of the projects the caller manages, and budgetUtilization is the
\* nearest integer to totalBudgetUsed / totalBudget * 100, 0 for no budget.
C22_ManagerOverviewScoped ==
  (resp.op = "overview" /\ resp.code = 200 /\ users[resp.caller].role = "manager") =>
    LET ps == {p \in DOMAIN projects : projects[p].manager = resp.caller}
        ids == {i \in DOMAIN assignments : assignments[i].project \in ps}
        total == SumOver(ps, [p \in ps |-> projects[p].budget])
        used == SumOver(ps, [p \in ps |-> projects[p].budgetUsed])
    IN /\ resp.body.projects.totalProjects = Cardinality(ps)
       /\ resp.body.projects.activeProjects
            = Cardinality({p \in ps : projects[p].status = "active"})
       /\ resp.body.projects.completedProjects
            = Cardinality({p \in ps : projects[p].status = "completed"})
       /\ resp.body.projects.budgetUtilization
            = (IF total = 0 THEN 0 ELSE NearestInteger(100 * used, total))
       /\ resp.body.assignments.totalAssignments = Cardinality(ids)
       /\ resp.body.assignments.activeAssignments
            = Cardinality({i \in ids : assignments[i].status \in {"active", "in-progress"}})
       /\ resp.body.assignments.completedAssignments
            = Cardinality({i \in ids : assignments[i].status = "completed"})
       /\ resp.body.assignments.overdueAssignments
            = Cardinality({i \in ids : assignments[i].deadline < now
                                         /\ assignments[i].status # "completed"})

\* The manager's overview counts an assignment of a project the manager does
\* not manage (strictQuery on), or counts none although the manager's
\* project has one (strictQuery off).
C22_Witness ==
  /\ resp.op = "overview" /\ resp.code = 200 /\ resp.caller = "u2"
  /\ resp.body.projects.totalProjects = 1
  /\ \/ /\ resp.body.strictQuery
        /\ resp.body.assignments.totalAssignments = MaxAssignments
        /\ \E i \in DOMAIN assignments : assignments[i].project = "p2"
     \/ /\ ~resp.body.strictQuery
        /\ resp.body.assignments.totalAssignments = 0
        /\ \E i \in DOMAIN assignments : assignments[i].project = "p1"

(***************************************************************************)
(* SpecOverdue: the workload view of an engineer with assignments of       *)
(* several statuses, requested before and after their deadlines.  The      *)
(* clock stands still within a behaviour, so that the response kept in     *)
(* resp is the response at time now.                                       *)
(***************************************************************************)
OverdueAssignmentDocs ==
  {[project |-> "p1", assignee |-> "u3", assignedBy |-> "u2", status |-> s,
    progress |-> 0, estimatedHours |-> 80, actualHours |-> 0,
    deadline |-> d, completedAt |-> NoDate, comments |-> <<>>,
    timeEntries |-> <<>>] :
     s \in {"active", "on-hold", "cancelled", "completed"}, d \in {1, MaxNow + 1}}

InitOverdue ==
  /\ users = StaffUsers
  /\ projects = [p \in {"p1"} |-> NewProject("u2", MaxNow + 1)]
  /\ assignments \in [1..MaxAssignments -> OverdueAssignmentDocs]
  /\ nextAssignment = MaxAssignments + 1
  /\ now \in 0..MaxNow
  /\ resp = NoResponse
  /\ inflight = NoRequests
  /\ db = Connected

SpecOverdue == InitOverdue /\ [][NextOwnWorkload]_vars

\* C23: the workload recommendations hold the urgent "overdue" message
\* exactly when the engineer has an assignment with deadline before now and
\* status other than completed, and the number reported is the number of
\* those assignments.
C23_OverdueCountsAllOpen ==
  (resp.op = "getWorkload" /\ resp.code = 200) =>
    LET late == {i \in DOMAIN assignments :
                   /\ assignments[i].assignee = resp.id
                   /\ assignments[i].deadline < now
                   /\ assignments[i].status # "completed"}
    IN /\ (\E k \in 1..Len(resp.body.recommendations) :
             resp.body.recommendations[k] = "urgent") <=> late # {}
       /\ late # {} => resp.body.overdueAssignments = Cardinality(late)

\* An on-hold assignment of the engineer is past its deadline and the
\* response reports nothing overdue.
C23_Witness ==
  /\ resp.op = "getWorkload" /\ resp.code = 200
  /\ \E i \in DOMAIN assignments :
       /\ assignments[i].assignee = resp.id
       /\ assignments[i].status = "on-hold"
       /\ assignments[i].deadline < now
  /\ resp.body.overdueAssignments = 0
  /\ \A k \in 1..Len(resp.body.recommendations) : resp.body.recommendations[k] # "urgent"

(***************************************************************************)
(* SpecLogin: an engineer logs in with a right or a wrong password as time *)
(* passes, and the admin writes the lock fields of the engineer's record.  *)
(***************************************************************************)
MaxLoginAttempts == 5
LockoutTime == 30

LockBodies == {[loginAttempts |-> MaxLoginAttempts, lockUntil |-> MaxNow + 1]}

NextWriteLock == \E b \in LockBodies : UpdateUser("u1", "u3", b)

NextEngineerLogin == \E matches \in BOOLEAN : Login("u3", TRUE, matches)

NextLoginSteps ==
  \/ NextEngineerLogin
  \/ NextWriteLock
  \/ NextDeactivate
  \/ Tick

SpecLogin == Init /\ [][NextLoginSteps]_vars

\* C24: a login with a wrong password for an existing active user adds one
\* to the user's loginAttempts, and the failure that brings the count to
\* MaxLoginAttempts sets lockUntil LockoutTime ahead of now; a login with the
\* correct password is rejected while lockUntil is ahead of now; an accepted
\* login sets loginAttempts to 0 and clears lockUntil.  The steps looked at
\* are those that change the kind or the status of the response, the users
\* or the clock.
C24_LockoutAfterFailures ==
  [][(resp'.op = "login" /\ resp'.id = "u3" /\ now' = now /\ users["u3"].isActive) =>
       LET user == users["u3"]
           matches == resp'.body
           locked == user.lockUntil # NoDate /\ user.lockUntil > now
       IN /\ (~matches /\ ~locked) =>
                /\ users'["u3"].loginAttempts = user.loginAttempts + 1
                /\ (user.loginAttempts + 1 = MaxLoginAttempts) =>
                      users'["u3"].lockUntil = now + LockoutTime
          /\ (matches /\ locked) => resp'.code # 200
          /\ (resp'.code = 200) =>
                /\ users'["u3"].loginAttempts = 0
                /\ users'["u3"].lockUntil = NoDate]_<<resp.op, resp.code, users, now, inflight, db>>

\* The engineer's login with a wrong password was rejected and the record
\* still counts no failed attempt.
C24_Witness ==
  /\ resp.op = "login" /\ resp.code = 401 /\ resp.id = "u3" /\ resp.body = FALSE
  /\ users["u3"].isActive
  /\ users["u3"].loginAttempts = 0

\* C25: in every reachable state the stored actualHours of each assignment
\* is the sum of the hours of its time entries, whatever assignment
\* creations, updates and time-entry additions led to the state.
C25_ActualHoursDerived ==
  \A i \in DOMAIN assignments :
    assignments[i].actualHours = SumSeq(assignments[i].timeEntries)

\* A manager's update with body {actualHours: 7} was answered 200 and the
\* assignment stores actualHours 7 with no time entry.
C25_Witness ==
  /\ resp.op = "updateAssignment" /\ resp.code = 200
  /\ resp.body = [actualHours |-> 7]
  /\ resp.id \in DOMAIN assignments
  /\ assignments[resp.id].actualHours = 7
  /\ assignments[resp.id].timeEntries = <<>>

(***************************************************************************)
(* PUT /api/auth/profile                                                   *)
(***************************************************************************)
\* The fields the route destructures from the body.
ProfileFields ==
  {"firstName", "lastName", "phone", "location", "skills", "availability",
   "department", "experienceLevel"}

\* if (field) user.field = field: a field that is absent, "" or 0 is not
\* assigned.
Truthy(body, f) ==
  /\ Present(body, f)
  /\ (f = "firstName") => body[f] # ""
  /\ (f = "availability") => body[f] # 0

\* user.save(): the validators of the modelled paths of the whole document.
UserSaveValid(user) ==
  /\ user.role \in Roles
  /\ user.availability \in MinAvailability..MaxAvailability

UpdateProfile(caller, body) ==
  /\ Protect(caller)
  /\ LET fields == {f \in ProfileFields : Truthy(body, f)}
         user == SetFields(users[caller], Pick(body, fields))
     IN IF ~UserSaveValid(user)
        THEN /\ Reply("updateProfile", 400, caller, caller, body)
             /\ UNCHANGED users
        ELSE /\ users' = [users EXCEPT ![caller] = user]
             /\ Reply("updateProfile", 200, caller, caller, body)
  /\ UNCHANGED <<projects, assignments, nextAssignment, now, inflight, db>>

(***************************************************************************)
(* SpecRoles: the manager and an engineer write user records and their     *)
(* own profiles.                                                           *)
(***************************************************************************)
RoleBodies ==
  {[role |-> "admin"], [role |-> "engineer", firstName |-> "X"], [availability |-> 20]}

ProfileBodies ==
  {[role |-> "admin", firstName |-> "X"], [availability |-> 0],
   [availability |-> 61], [availability |-> 20, firstName |-> ""]}

NextRoleUpdate ==
  \E c \in {"u2", "u3"}, id \in {"u2", "u3"}, b \in RoleBodies : UpdateUser(c, id, b)

NextUpdateProfile == \E c \in {"u2", "u3"}, b \in ProfileBodies : UpdateProfile(c, b)

NextRoles ==
  \/ NextRoleUpdate
  \/ NextUpdateProfile

SpecRoles == Init /\ [][NextRoles]_vars

\* C28: a request of a caller who is not an admin leaves the role of every
\* user as it was.
C28_NonAdminKeepsRoles ==
  [][(users[resp'.caller].role # "admin") =>
       \A u \in DOMAIN users : users'[u].role = users[u].role]_vars

\* The manager wrote role admin into the manager's own record through
\* PUT /api/users/:id and was answered 200.
C28_Witness ==
  /\ resp.op = "updateUser" /\ resp.code = 200
  /\ resp.caller = "u2" /\ resp.id = "u2"
  /\ resp.body = [role |-> "admin"]
  /\ users["u2"].role = "admin"

(***************************************************************************)
(* Requests between two awaits.                                            *)
(***************************************************************************)
RequestIds == 1..MaxRequests

\* The request r continues at its next await with the locals q.
Continue(r, q) ==
  inflight' = [x \in (DOMAIN inflight) \cup {r} |-> IF x = r THEN q ELSE inflight[x]]

\* The request r has sent its response.
Finish(r) ==
  inflight' = [x \in (DOMAIN inflight) \ {r} |-> inflight[x]]

At(r, op, pc) ==
  /\ r \in DOMAIN inflight
  /\ inflight[r].op = op
  /\ inflight[r].pc = pc

(***************************************************************************)
(* PUT /api/assignments/:id, one action per await.                         *)
(***************************************************************************)
\* await Assignment.findById, the permission check and the field mask.
UpdateAssignmentFind(r, caller, id, body) ==
  /\ Protect(caller)
  /\ r \notin DOMAIN inflight
  /\ IF id \notin DOMAIN assignments
     THEN Reply("updateAssignment", 404, caller, id, body) /\ UNCHANGED inflight
     ELSE LET a == assignments[id]
              role == users[caller].role
              canUpdate == role = "admin" \/ a.assignedBy = caller \/ a.assignee = caller
              updateFields == IF role = "engineer"
                              THEN Pick(body, EngineerAssignmentFields)
                              ELSE body
          IN IF ~canUpdate
             THEN Reply("updateAssignment", 403, caller, id, body) /\ UNCHANGED inflight
             ELSE /\ Continue(r, [op |-> "updateAssignment", pc |-> "write",
                                  caller |-> caller, id |-> id, body |-> body,
                                  updateFields |-> updateFields,
                                  project |-> "none", averageProgress |-> 0])
                  /\ UNCHANGED resp
  /\ UNCHANGED <<users, projects, assignments, nextAssignment, now, db>>

\* await Assignment.findByIdAndUpdate.  When the document is gone the call
\* yields null and reading its project throws, which the catch answers 500.
UpdateAssignmentWrite(r) ==
  /\ At(r, "updateAssignment", "write")
  /\ LET q == inflight[r]
     IN IF q.id \notin DOMAIN assignments
        THEN /\ Reply("updateAssignment", 500, q.caller, q.id, q.body)
             /\ Finish(r)
             /\ UNCHANGED assignments
        ELSE IF ~ValidAssignmentUpdate(q.updateFields, now)
        THEN /\ Reply("updateAssignment", 400, q.caller, q.id, q.body)
             /\ Finish(r)
             /\ UNCHANGED assignments
        ELSE /\ assignments' = [assignments EXCEPT ![q.id] = SetFields(@, q.updateFields)]
             /\ Continue(r, [q EXCEPT !.pc = "find", !.project = assignments'[q.id].project])
             /\ UNCHANGED resp
  /\ UNCHANGED <<users, projects, nextAssignment, now, db>>

\* await Assignment.find({ project }) and the average of what it returned.
UpdateAssignmentFindAll(r) ==
  /\ At(r, "updateAssignment", "find")
  /\ LET q == inflight[r]
     IN Continue(r, [q EXCEPT !.pc = "store",
                              !.averageProgress =
                                 RouteAverage(assignments, assignments, q.project)])
  /\ UNCHANGED <<users, projects, assignments, nextAssignment, now, resp, db>>

\* await Project.findByIdAndUpdate(projectId, { progress }) and the response.
UpdateAssignmentStore(r) ==
  /\ At(r, "updateAssignment", "store")
  /\ LET q == inflight[r]
     IN /\ projects' = IF q.project \in DOMAIN projects
                       THEN [projects EXCEPT ![q.project].progress = q.averageProgress]
                       ELSE projects
        /\ Reply("updateAssignment", 200, q.caller, q.id, q.body)
        /\ Finish(r)
  /\ UNCHANGED <<users, assignments, nextAssignment, now, db>>

(***************************************************************************)
(* SpecRace: the manager's updates of the two assignments of one project,  *)
(* with the awaits of requests on different assignments interleaved.       *)
(***************************************************************************)
RaceAssignment ==
  [project |-> "p1", assignee |-> "u3", assignedBy |-> "u2", status |-> "active",
   progress |-> 0, estimatedHours |-> 8, actualHours |-> 0, deadline |-> MaxNow + 1,
   completedAt |-> NoDate, comments |-> <<>>, timeEntries |-> <<>>]

InitRace ==
  /\ users = StaffUsers
  /\ projects = [p \in {"p1"} |-> NewProject("u2", MaxNow + 1)]
  /\ assignments = [i \in 1..MaxAssignments |-> RaceAssignment]
  /\ nextAssignment = MaxAssignments + 1
  /\ now = 0
  /\ resp = NoResponse
  /\ inflight = NoRequests
  /\ db = Connected

RaceBodies == {[progress |-> 50], [progress |-> 100]}

NextRaceFind ==
  \E r \in RequestIds, id \in DOMAIN assignments, b \in RaceBodies :
    /\ \A x \in DOMAIN inflight : inflight[x].id # id
    /\ UpdateAssignmentFind(r, "u2", id, b)

NextRaceWrite == \E r \in RequestIds : UpdateAssignmentWrite(r)

NextRaceFindAll == \E r \in RequestIds : UpdateAssignmentFindAll(r)

NextRaceStore == \E r \in RequestIds : UpdateAssignmentStore(r)

NextRace ==
  \/ NextRaceFind
  \/ NextRaceWrite
  \/ NextRaceFindAll
  \/ NextRaceStore

SpecRace == InitRace /\ [][NextRace]_vars

\* C26: when the updates of different assignments of one project have all
\* completed, whatever the order of their steps, the stored progress of the
\* project is the rounded mean of the progress of its assignments.
C26_NoStaleProjectProgress ==
  (DOMAIN inflight = {}) =>
    \A p \in DOMAIN projects : projects[p].progress = ExpectedProjectProgress(p)

\* Both updates have completed, both assignments stand at 100 and the
\* project's stored progress is 50.
C26_Witness ==
  /\ DOMAIN inflight = {}
  /\ resp.op = "updateAssignment" /\ resp.code = 200
  /\ \A i \in DOMAIN assignments : assignments[i].progress = 100
  /\ projects["p1"].progress = 50

(***************************************************************************)
(* DELETE /api/users/:id, one action per await.                            *)
(***************************************************************************)
\* protect, isAdmin and await User.findById.
DeleteUserFind(r, caller, id) ==
  /\ Protect(caller)
  /\ r \notin DOMAIN inflight
  /\ IF ~IsAdmin(caller)
     THEN Reply("deleteUser", 403, caller, id, <<>>) /\ UNCHANGED inflight
     ELSE IF id \notin DOMAIN users
     THEN Reply("deleteUser", 404, caller, id, <<>>) /\ UNCHANGED inflight
     ELSE /\ Continue(r, [op |-> "deleteUser",
                          pc |-> IF users[id].role = "admin" THEN "count" ELSE "save",
                          caller |-> caller, id |-> id])
          /\ UNCHANGED resp
  /\ UNCHANGED <<users, projects, assignments, nextAssignment, now, db>>

\* await User.countDocuments({ role: "admin", isActive: true })
DeleteUserCount(r) ==
  /\ At(r, "deleteUser", "count")
  /\ LET q == inflight[r]
     IN IF ActiveAdminCount(users) <= 1
        THEN Reply("deleteUser", 400, q.caller, q.id, <<>>) /\ Finish(r)
        ELSE Continue(r, [q EXCEPT !.pc = "save"]) /\ UNCHANGED resp
  /\ UNCHANGED <<users, projects, assignments, nextAssignment, now, db>>

\* user.isActive = false; await user.save()
DeleteUserSave(r) ==
  /\ At(r, "deleteUser", "save")
  /\ LET q == inflight[r]
     IN /\ users' = [users EXCEPT ![q.id].isActive = FALSE]
        /\ Continue(r, [q EXCEPT !.pc = "cancel"])
  /\ UNCHANGED <<projects, assignments, nextAssignment, now, resp, db>>

\* await Assignment.updateMany and the response.
DeleteUserCancel(r) ==
  /\ At(r, "deleteUser", "cancel")
  /\ LET q == inflight[r]
     IN /\ assignments' = CancelAssignments(assignments, q.id)
        /\ Reply("deleteUser", 200, q.caller, q.id, <<>>)
        /\ Finish(r)
  /\ UNCHANGED <<users, projects, nextAssignment, now, db>>

(***************************************************************************)
(* SpecAdmins: two admins and their deletion requests, with the awaits of  *)
(* the requests interleaved.                                               *)
(***************************************************************************)
InitAdmins ==
  /\ users = [StaffUsers EXCEPT !["u2"].role = "admin"]
  /\ projects = [p \in {"p1"} |-> NewProject("u2", MaxNow + 1)]
  /\ assignments = [i \in 1..MaxAssignments |-> [RaceAssignment EXCEPT !.assignee = "u1"]]
  /\ nextAssignment = MaxAssignments + 1
  /\ now = 0
  /\ resp = NoResponse
  /\ inflight = NoRequests
  /\ db = Connected

NextDeleteFind ==
  \E r \in RequestIds, c \in {"u1", "u3"}, id \in {"u1", "u2", "u3"} :
    DeleteUserFind(r, c, id)

NextDeleteCount == \E r \in RequestIds : DeleteUserCount(r)

NextDeleteSave == \E r \in RequestIds : DeleteUserSave(r)

NextDeleteCancel == \E r \in RequestIds : DeleteUserCancel(r)

NextAdmins ==
  \/ NextDeleteFind
  \/ NextDeleteCount
  \/ NextDeleteSave
  \/ NextDeleteCancel

SpecAdmins == InitAdmins /\ [][NextAdmins]_vars

\* C27: starting with an active admin, no deletion requests, run one after
\* the other or with their steps interleaved, lead to a state without an
\* active admin.
C27_AlwaysAnActiveAdmin == ActiveAdminCount(users) >= 1

\* Two deletion requests for the two admins have both been answered 200 and
\* no admin is active.
C27_Witness ==
  /\ DOMAIN inflight = {}
  /\ resp.op = "deleteUser" /\ resp.code = 200
  /\ ~users["u1"].isActive
  /\ ~users["u2"].isActive

(***************************************************************************)
(* POST /api/assignments and DELETE /api/projects/:id, one action per      *)
(* await.                                                                  *)
(***************************************************************************)
\* protect, isAdminOrManager and await Project.findById(project).
CreateAssignmentFindProject(r, caller, body) ==
  /\ Protect(caller)
  /\ r \notin DOMAIN inflight
  /\ IF ~IsAdminOrManager(caller)
     THEN Reply("createAssignment", 403, caller, 0, body) /\ UNCHANGED inflight
     ELSE IF body.project \notin DOMAIN projects
     THEN Reply("createAssignment", 404, caller, 0, body) /\ UNCHANGED inflight
     ELSE /\ Continue(r, [op |-> "createAssignment", pc |-> "assignee",
                          caller |-> caller, id |-> 0, body |-> body,
                          manager |-> projects[body.project].manager])
          /\ UNCHANGED resp
  /\ UNCHANGED <<users, projects, assignments, nextAssignment, now, db>>

\* await User.findById(assignee) and the manager check on the project that
\* was read.
CreateAssignmentFindAssignee(r) ==
  /\ At(r, "createAssignment", "assignee")
  /\ LET q == inflight[r]
     IN IF q.body.assignee \notin DOMAIN users
        THEN Reply("createAssignment", 404, q.caller, 0, q.body) /\ Finish(r)
        ELSE IF users[q.caller].role = "manager" /\ q.manager # q.caller
        THEN Reply("createAssignment", 403, q.caller, 0, q.body) /\ Finish(r)
        ELSE Continue(r, [q EXCEPT !.pc = "create"]) /\ UNCHANGED resp
  /\ UNCHANGED <<users, projects, assignments, nextAssignment, now, db>>

\* await Assignment.create: validation, pre("save"), the insert and
\* post("save").
CreateAssignmentCreate(r) ==
  /\ At(r, "createAssignment", "create")
  /\ nextAssignment <= MaxAssignments
  /\ LET q == inflight[r]
     IN IF ~(q.body.estimatedHours >= MinEstimatedHours /\ q.body.deadline > now)
        THEN /\ Reply("createAssignment", 400, q.caller, 0, q.body)
             /\ Finish(r)
             /\ UNCHANGED <<projects, assignments, nextAssignment>>
        ELSE LET id == nextAssignment
                 saved == SaveAssignment(assignments, projects, id,
                                         NewAssignment(q.caller, q.body, now), FALSE, now)
             IN /\ assignments' = saved.assignments
                /\ projects' = saved.projects
                /\ nextAssignment' = nextAssignment + 1
                /\ Continue(r, [q EXCEPT !.pc = "populate", !.id = id])
                /\ UNCHANGED resp
  /\ UNCHANGED <<users, now, db>>

\* await Assignment.findById(...).populate(...) and the response.
CreateAssignmentPopulate(r) ==
  /\ At(r, "createAssignment", "populate")
  /\ LET q == inflight[r]
     IN Reply("createAssignment", 201, q.caller, q.id, q.body) /\ Finish(r)
  /\ UNCHANGED <<users, projects, assignments, nextAssignment, now, db>>

\* protect, isAdminOrManager, await Project.findById and the manager check.
DeleteProjectFind(r, caller, id) ==
  /\ Protect(caller)
  /\ r \notin DOMAIN inflight
  /\ IF ~IsAdminOrManager(caller)
     THEN Reply("deleteProject", 403, caller, id, <<>>) /\ UNCHANGED inflight
     ELSE IF id \notin DOMAIN projects
     THEN Reply("deleteProject", 404, caller, id, <<>>) /\ UNCHANGED inflight
     ELSE IF users[caller].role = "manager" /\ projects[id].manager # caller
     THEN Reply("deleteProject", 403, caller, id, <<>>) /\ UNCHANGED inflight
     ELSE /\ Continue(r, [op |-> "deleteProject", pc |-> "deleteMany",
                          caller |-> caller, id |-> id])
          /\ UNCHANGED resp
  /\ UNCHANGED <<users, projects, assignments, nextAssignment, now, db>>

\* await Assignment.deleteMany({ project: id })
DeleteProjectAssignments(r) ==
  /\ At(r, "deleteProject", "deleteMany")
  /\ LET q == inflight[r]
     IN /\ assignments' = DeleteMany(assignments, q.id)
        /\ Continue(r, [q EXCEPT !.pc = "delete"])
  /\ UNCHANGED <<users, projects, nextAssignment, now, resp, db>>

\* await Project.findByIdAndDelete(id) and the response.
DeleteProjectDelete(r) ==
  /\ At(r, "deleteProject", "delete")
  /\ LET q == inflight[r]
     IN /\ projects' = [p \in (DOMAIN projects) \ {q.id} |-> projects[p]]
        /\ Reply("deleteProject", 200, q.caller, q.id, <<>>)
        /\ Finish(r)
  /\ UNCHANGED <<users, assignments, nextAssignment, now, db>>

(***************************************************************************)
(* SpecDangling: the manager creates assignments in two projects and       *)
(* deletes the projects, with the awaits of the requests interleaved.      *)
(***************************************************************************)
NextCreateFindProject ==
  \E r \in RequestIds, p \in ProjectIds : CreateAssignmentFindProject(r, "u2", CreateBody(p))

NextCreateFindAssignee == \E r \in RequestIds : CreateAssignmentFindAssignee(r)

NextCreateCreate == \E r \in RequestIds : CreateAssignmentCreate(r)

NextCreatePopulate == \E r \in RequestIds : CreateAssignmentPopulate(r)

NextDeleteProjectFind ==
  \E r \in RequestIds, p \in ProjectIds : DeleteProjectFind(r, "u2", p)

NextDeleteProjectAssignments == \E r \in RequestIds : DeleteProjectAssignments(r)

NextDeleteProjectDelete == \E r \in RequestIds : DeleteProjectDelete(r)

NextDangling ==
  \/ NextCreateFindProject
  \/ NextCreateFindAssignee
  \/ NextCreateCreate
  \/ NextCreatePopulate
  \/ NextDeleteProjectFind
  \/ NextDeleteProjectAssignments
  \/ NextDeleteProjectDelete

SpecDangling == InitProjects /\ [][NextDangling]_vars

\* C29: when the project deletions and assignment creations have all
\* completed, whatever the order of their steps, the project of every stored
\* assignment is a stored project.
C29_NoDanglingProject ==
  (DOMAIN inflight = {}) =>
    \A i \in DOMAIN assignments : assignments[i].project \in DOMAIN projects

\* A creation was answered 201 and a deletion 200, no request is in flight,
\* and the created assignment names a project that is no longer stored.
C29_Witness ==
  /\ DOMAIN inflight = {}
  /\ resp.code \in {200, 201}
  /\ \E i \in DOMAIN assignments : assignments[i].project \notin DOMAIN projects

(***************************************************************************)
(* server.js: connectDB, and the two routes that answer without the        *)
(* store.  db.pc is the position of connectDB: at mongoose.connect          *)
(* ("connect"), in the backoff timer ("wait"), returned ("connected") or   *)
(* after process.exit(1) ("exited").  db.attempts counts the calls of      *)
(* mongoose.connect, db.elapsed the seconds of the running timer, and      *)
(* db.waits lists the seconds of the timers that have fired.               *)
(***************************************************************************)
MaxRetries == 5

\* Math.pow(2, retries) * 1000 ms, in seconds
BackoffLinear(retries) == 2 * retries

Backoff(retries) == 2 ^ retries

\* connectDB() is called: retries = 0 and the loop is entered.
Connecting ==
  [pc |-> "connect", retries |-> 0, attempts |-> 0, waits |-> <<>>, elapsed |-> 0]

\* await mongoose.connect(...) resolves: break.
ConnectSucceeds ==
  /\ db.pc = "connect"
  /\ db' = [db EXCEPT !.pc = "connected", !.attempts = @ + 1]
  /\ UNCHANGED <<users, projects, assignments, nextAssignment, now, resp, inflight>>

\* await mongoose.connect(...) rejects: retries++, then process.exit(1) at
\* maxRetries, else the backoff timer is started.
ConnectFails ==
  /\ db.pc = "connect"
  /\ LET retries == db.retries + 1
     IN db' = [db EXCEPT !.retries = retries,
                         !.attempts = @ + 1,
                         !.pc = IF retries = MaxRetries THEN "exited" ELSE "wait",
                         !.elapsed = 0]
  /\ UNCHANGED <<users, projects, assignments, nextAssignment, now, resp, inflight>>

\* A second of the backoff timer passes.
BackoffSecond ==
  /\ db.pc = "wait"
  /\ db.elapsed < Backoff(db.retries)
  /\ db' = [db EXCEPT !.elapsed = @ + 1]
  /\ UNCHANGED <<users, projects, assignments, nextAssignment, now, resp, inflight>>

\* The backoff timer fires and the loop condition retries < maxRetries is
\* tested.
BackoffFires ==
  /\ db.pc = "wait"
  /\ db.elapsed >= Backoff(db.retries)
  /\ db' = [db EXCEPT !.waits = Append(@, db.elapsed),
                      !.elapsed = 0,
                      !.pc = IF db.retries < MaxRetries THEN "connect" ELSE "connected"]
  /\ UNCHANGED <<users, projects, assignments, nextAssignment, now, resp, inflight>>

\* GET /api/health and GET /api answer 200 while the process runs.
Health ==
  /\ db.pc # "exited"
  /\ Reply("health", 200, "none", 0, <<>>)
  /\ UNCHANGED <<users, projects, assignments, nextAssignment, now, inflight, db>>

ApiIndex ==
  /\ db.pc # "exited"
  /\ Reply("apiIndex", 200, "none", 0, <<>>)
  /\ UNCHANGED <<users, projects, assignments, nextAssignment, now, inflight, db>>

(***************************************************************************)
(* SpecConnect: the server starts; connectDB runs while the routes without *)
(* the store answer.  SpecConnectFair adds that a connection attempt       *)
(* settles (mongoose.connect resolves or rejects after the server          *)
(* selection timeout) and that the timer runs and fires.                   *)
(***************************************************************************)
InitConnect ==
  /\ users = StaffUsers
  /\ projects = [p \in {"p1"} |-> NewProject("u2", MaxNow + 1)]
  /\ assignments = NoAssignments
  /\ nextAssignment = 1
  /\ now = 0
  /\ resp = NoResponse
  /\ inflight = NoRequests
  /\ db = Connecting

ConnectSettles ==
  \/ ConnectSucceeds
  \/ ConnectFails

NextConnect ==
  \/ ConnectSettles
  \/ BackoffSecond
  \/ BackoffFires
  \/ Health
  \/ ApiIndex

SpecConnect == InitConnect /\ [][NextConnect]_vars

SpecConnectFair ==
  /\ SpecConnect
  /\ WF_vars(ConnectSettles)
  /\ WF_vars(BackoffSecond)
  /\ WF_vars(BackoffFires)

ConnectTerminated == db.pc \in {"connected", "exited"}

\* At most MaxRetries attempts; the k-th timer that fired ran 2^k seconds;
\* every failure but the last was followed by a wait before the next
\* attempt; a success ends the routine after at most retries + 1 attempts;
\* the exit comes after the MaxRetries-th failure with no wait after it.
ConnectShape ==
  /\ db.attempts <= MaxRetries
  /\ \A k \in 1..Len(db.waits) : db.waits[k] = 2 ^ k
  /\ (db.pc = "connect") => (db.attempts = db.retries /\ Len(db.waits) = db.retries)
  /\ (db.pc = "wait") => (db.attempts = db.retries /\ Len(db.waits) = db.retries - 1)
  /\ (db.pc = "connected") =>
       (db.attempts = db.retries + 1 /\ Len(db.waits) = db.retries)
  /\ (db.pc = "exited") =>
       (db.retries = MaxRetries /\ db.attempts = MaxRetries
        /\ Len(db.waits) = MaxRetries - 1)

\* C30: connectDB terminates: it makes at most 5 attempts, makes no attempt
\* after a success, waits 2^k seconds after the k-th failure before the next
\* attempt, exits after the 5th failure in a row without a further attempt
\* or wait, and once it has returned or exited it takes no further step.
C30_ConnectTerminates ==
  /\ []ConnectShape
  /\ [][ConnectTerminated => db' = db]_vars
  /\ <>ConnectTerminated

\* The process has exited after five failed attempts and waits of 2, 4, 8
\* and 16 seconds.
C30_Witness ==
  /\ db.pc = "exited"
  /\ db.attempts = 5
  /\ db.waits = <<2, 4, 8, 16>>
====
